---- MODULE Spec2Model ----
(***************************************************************************)
(* SSHService (services/ssh-service): the session-indexed registry of SSH  *)
(* connections, command execution over a connection, the iptables          *)
(* orchestration methods and the text parsers they feed.                   *)
(*                                                                         *)
(* Text is a sequence of one-character strings, so that splitting,         *)
(* matching and joining are computed as the JavaScript computes them.      *)
(***************************************************************************)
EXTENDS Integers, Sequences, FiniteSets, TLC

(***************************************************************************)
(* Bounds of the model.                                                    *)
(***************************************************************************)
\* Client objects created by connect over a run of Spec
MaxClients == 3
\* Client objects created by connect over a run of RunSpec
MaxRunClients == 1
\* calls of executeCommand over a run of RunSpec
MaxOps == 1
\* data events (stdout and stderr together) on one execution channel of RunSpec
MaxChunks == 2
\* data events on the channels of one service call of ServiceSpec
MaxServiceChunks == 3
\* data events on the channel of one executeCommand of RunLiveSpec
MaxLiveChunks == 1
\* connect calls and executeCommand calls in PairSpec
MaxPairClients == 2
MaxPairOps == 1
\* lines of a listing handed to parseIptablesOutput in ParseSpec
MaxListingLines == 3
\* lines of a dump handed to parseIptablesSave in ParseSpec
MaxDumpLines == 4
\* words of an extra column handed to parseExtraFields in ParseSpec
MaxExtraWords == 3
\* tokens of a rule content handed to parseRuleContent in ParseSpec
MaxContentTokens == 4
\* the length of the longest text handed to a parser of another format
MaxForeignPieces == 2

(***************************************************************************)
(* Text helpers: JavaScript string and RegExp primitives.                  *)
(***************************************************************************)
Digits == {"0", "1", "2", "3", "4", "5", "6", "7", "8", "9"}

\* \d
IsDigit(c) == c \in Digits

\* \s (the white space of the model's alphabet)
IsSpace(c) == c \in {" ", "\n", "\t", "\r"}

\* the values a JavaScript variable holding an optional string takes
Null == [k |-> "null", v |-> <<>>]

Undefined == [k |-> "undefined", v |-> <<>>]

Str(t) == [k |-> "string", v |-> t]

\* String.prototype.startsWith
StartsWith(s, p) == Len(s) >= Len(p) /\ SubSeq(s, 1, Len(p)) = p

\* s.substring(i - 1): the text from the 1-based position i to the end
From(s, i) == SubSeq(s, i, Len(s))

\* whether p occurs in s at the 1-based position i
At(s, i, p) == i >= 1 /\ i + Len(p) - 1 <= Len(s) /\ SubSeq(s, i, i + Len(p) - 1) = p

\* the least and the greatest element of a non-empty set of integers
Least(S) == CHOOSE x \in S : \A y \in S : x <= y

Greatest(S) == CHOOSE x \in S : \A y \in S : x >= y

\* the end (exclusive) of the longest run of characters of class C starting at i
RunEnd(s, i, C) ==
    IF i > Len(s) THEN i ELSE Least({j \in i..(Len(s) + 1) : j > Len(s) \/ s[j] \notin C})

\* the end (exclusive) of the longest run of non-space characters starting at i
NonSpaceEnd(s, i) ==
    IF i > Len(s) THEN i ELSE Least({j \in i..(Len(s) + 1) : j > Len(s) \/ IsSpace(s[j])})

\* the end (exclusive) of the longest run of space characters starting at i
SpaceEnd(s, i) ==
    IF i > Len(s) THEN i ELSE Least({j \in i..(Len(s) + 1) : j > Len(s) \/ ~IsSpace(s[j])})

\* String.prototype.split('\n'): the pieces between line feeds, empty pieces kept
RECURSIVE SplitLines(_)
SplitLines(s) ==
    LET e == Least({j \in 1..(Len(s) + 1) : j > Len(s) \/ s[j] = "\n"})
    IN  IF e > Len(s) THEN <<s>> ELSE <<SubSeq(s, 1, e - 1)>> \o SplitLines(From(s, e + 1))

\* String.prototype.split(/\s+/): the pieces between runs of white space; a
\* leading or trailing run leaves an empty piece, and "" splits into [""]
RECURSIVE SplitSpace(_)
SplitSpace(s) ==
    LET e == NonSpaceEnd(s, 1)
    IN  IF e > Len(s) THEN <<s>>
        ELSE <<SubSeq(s, 1, e - 1)>> \o SplitSpace(From(s, SpaceEnd(s, e)))

\* String.prototype.trim
TrimEnd(s) ==
    LET inked == {j \in 1..Len(s) : ~IsSpace(s[j])}
    IN  IF inked = {} THEN <<>> ELSE SubSeq(s, 1, Greatest(inked))

Trim(s) == TrimEnd(From(s, SpaceEnd(s, 1)))

\* Array.prototype.join(' ')
RECURSIVE JoinSpace(_)
JoinSpace(parts) ==
    IF parts = <<>> THEN <<>>
    ELSE IF Len(parts) = 1 THEN parts[1]
    ELSE parts[1] \o <<" ">> \o JoinSpace(Tail(parts))

\* Array.prototype.join('\n'): the text whose split('\n') is lines
RECURSIVE JoinLines(_)
JoinLines(lines) ==
    IF lines = <<>> THEN <<>>
    ELSE IF Len(lines) = 1 THEN lines[1]
    ELSE lines[1] \o <<"\n">> \o JoinLines(Tail(lines))

\* the concatenation of a sequence of texts
RECURSIVE Concat(_)
Concat(parts) == IF parts = <<>> THEN <<>> ELSE parts[1] \o Concat(Tail(parts))

(***************************************************************************)
(* parseExtraFields: ports and NAT destination out of the "extra" column.  *)
(***************************************************************************)
\* /spt:(\d+)/ matches at position i
SptAt(s, i) == At(s, i, <<"s", "p", "t", ":">>) /\ i + 4 <= Len(s) /\ IsDigit(s[i + 4])

FindSpt(s, i) ==
    LET found == {j \in i..Len(s) : SptAt(s, j)}
    IN  IF found = {} THEN 0 ELSE Least(found)

\* /dpts?:/ at position i: the position after the colon, or 0
DptColon(s, i) ==
    IF At(s, i, <<"d", "p", "t", "s", ":">>) THEN i + 5 ELSE IF At(s, i, <<"d", "p", "t", ":">>) THEN i + 4 ELSE 0

\* /dpts?:(\d+(?::\d+)?)/ matches at position i
DptAt(s, i) ==
    LET p == DptColon(s, i) IN p > 0 /\ p <= Len(s) /\ IsDigit(s[p])

FindDpt(s, i) ==
    LET found == {j \in i..Len(s) : DptAt(s, j)}
    IN  IF found = {} THEN 0 ELSE Least(found)

\* the group (\d+(?::\d+)?) starting at position p
PortOrRange(s, p) ==
    LET e == RunEnd(s, p, Digits)
        r == IF e + 1 <= Len(s) /\ s[e] = ":" /\ IsDigit(s[e + 1])
             THEN RunEnd(s, e + 1, Digits) ELSE e
    IN  SubSeq(s, p, r - 1)

\* /to:([\d.]+):?(\d+)?/ matches at position i
ToAt(s, i) == At(s, i, <<"t", "o", ":">>) /\ i + 3 <= Len(s) /\ s[i + 3] \in Digits \cup {"."}

FindTo(s, i) ==
    LET found == {j \in i..Len(s) : ToAt(s, j)}
    IN  IF found = {} THEN 0 ELSE Least(found)

\* the group (\d+) starting at position p
DigitsFrom(s, p) == SubSeq(s, p, RunEnd(s, p, Digits) - 1)

\* sptMatch[1] of the match at position i, null when there is no match
SourcePortAt(s, i) == IF i = 0 THEN Null ELSE Str(DigitsFrom(s, i + 4))

\* a destination port that stops at the first port of a range
DestPortAtFirstPort(s, i) == IF i = 0 THEN Null ELSE Str(DigitsFrom(s, DptColon(s, i)))

\* dptMatch[1] of the match at position i, null when there is no match
DestPortAt(s, i) == IF i = 0 THEN Null ELSE Str(PortOrRange(s, DptColon(s, i)))

\* the group (\d+)? after the optional colon that follows the address ending at ipEnd
ToPort(s, ipEnd) ==
    DigitsFrom(s, IF ipEnd <= Len(s) /\ s[ipEnd] = ":" THEN ipEnd + 1 ELSE ipEnd)

\* a combined destination that leaves the port out
ToFieldsWithoutPort(ip, port) ==
    [toDestIP |-> Str(ip),
     toDestPort |-> IF port # <<>> THEN Str(port) ELSE Null,
     toDestination |-> Str(ip)]

\* toDestIP = toMatch[1], toDestPort = toMatch[2] || null,
\* toDestination = toMatch[2] ? `${toMatch[1]}:${toMatch[2]}` : toMatch[1]
ToFields(ip, port) ==
    [toDestIP |-> Str(ip),
     toDestPort |-> IF port # <<>> THEN Str(port) ELSE Null,
     toDestination |-> IF port # <<>> THEN Str(ip \o <<":">> \o port) ELSE Str(ip)]

\* the groups of the match of /to:([\d.]+):?(\d+)?/ at position i, whose
\* address ends (exclusive) at ipEnd
ToGroups(s, i, ipEnd) == ToFields(SubSeq(s, i + 3, ipEnd - 1), ToPort(s, ipEnd))

\* the three fields of the NAT destination, null when there is no match
ToAtMatch(s, i) ==
    IF i = 0 THEN [toDestIP |-> Null, toDestPort |-> Null, toDestination |-> Null]
    ELSE ToGroups(s, i, RunEnd(s, i + 3, Digits \cup {"."}))

parseExtraFields(extraString) ==
    IF extraString = <<>>
    THEN [sourcePort |-> Null, destPort |-> Null, toDestIP |-> Null,
          toDestPort |-> Null, toDestination |-> Null]
    ELSE [sourcePort |-> SourcePortAt(extraString, FindSpt(extraString, 1)),
          destPort |-> DestPortAt(extraString, FindDpt(extraString, 1))]
         @@ ToAtMatch(extraString, FindTo(extraString, 1))

(***************************************************************************)
(* parseIptablesOutput: the `iptables -L -n -v --line-numbers` listing.    *)
(***************************************************************************)
\* /Chain (\S+)/ matches at position i
ChainNameAt(s, i) == At(s, i, <<"C", "h", "a", "i", "n", " ">>) /\ i + 6 <= Len(s) /\ ~IsSpace(s[i + 6])

FindChainName(s, i) ==
    LET found == {j \in i..Len(s) : ChainNameAt(s, j)}
    IN  IF found = {} THEN 0 ELSE Least(found)

\* line.match(/Chain (\S+)/): the captured name, or Null
MatchChainName(line) ==
    LET i == FindChainName(line, 1)
    IN  IF i = 0 THEN Null ELSE Str(SubSeq(line, i + 6, NonSpaceEnd(line, i + 6) - 1))

\* line.match(/^\s*\d+/)
IsRuleLine(line) ==
    LET i == SpaceEnd(line, 1) IN i <= Len(line) /\ IsDigit(line[i])

\* the rule object with the packet count for its number
RuleOfPacketCount(parts, extraString, parsedExtra) ==
    [num |-> parts[2], target |-> parts[4], prot |-> parts[5], opt |-> parts[6],
     source |-> parts[7], destination |-> parts[8], extra |-> extraString]
    @@ parsedExtra

\* the object of rules.push: the columns, extraString and the five fields of parsedExtra
RuleOf(parts, extraString, parsedExtra) ==
    [num |-> parts[1], target |-> parts[4], prot |-> parts[5], opt |-> parts[6],
     source |-> parts[7], destination |-> parts[8], extra |-> extraString]
    @@ parsedExtra

\* the rule of parts, whose columns from the ninth on joined are extraString
RuleWithExtra(parts, extraString) ==
    RuleOf(parts, extraString, parseExtraFields(extraString))

\* a rule whose extra string begins with the destination column
ListingRuleFromDestination(parts) ==
    RuleWithExtra(parts, JoinSpace(SubSeq(parts, 8, Len(parts))))

ListingRule(parts) == RuleWithExtra(parts, JoinSpace(SubSeq(parts, 9, Len(parts))))

\* the rule put before the rules read so far
WithListingRuleFirst(rules, parts) ==
    IF Len(parts) >= 8 THEN <<ListingRule(parts)>> \o rules ELSE rules

\* if (parts.length >= 8) { rules.push(...) }
WithListingRule(rules, parts) ==
    IF Len(parts) >= 8 THEN Append(rules, ListingRule(parts)) ELSE rules

\* a push without the test of currentChain
PushChainAlways(chains, currentChain, rules) ==
    Append(chains, [chain |-> IF currentChain = Null THEN Null ELSE currentChain.v,
                    rules |-> rules])

\* a push that leaves out a chain that has no rules
PushChainWithRules(chains, currentChain, rules) ==
    IF currentChain # Null /\ currentChain.v # <<>> /\ rules # <<>>
    THEN Append(chains, [chain |-> currentChain.v, rules |-> rules])
    ELSE chains

\* if (currentChain) { chains.push({ chain: currentChain, rules }) }
PushChain(chains, currentChain, rules) ==
    IF currentChain # Null /\ currentChain.v # <<>>
    THEN Append(chains, [chain |-> currentChain.v, rules |-> rules])
    ELSE chains

\* a loop that resets rules only when it has pushed them: the rule lines read
\* under no chain go to the next chain
RECURSIVE ListingScanKeepingRules(_, _, _, _, _)
ListingScanKeepingRules(lines, i, chains, currentChain, rules) ==
    IF i > Len(lines) THEN PushChain(chains, currentChain, rules)
    ELSE LET line == lines[i] IN
         IF StartsWith(line, <<"C", "h", "a", "i", "n">>)
         THEN ListingScanKeepingRules(lines, i + 1, PushChain(chains, currentChain, rules),
                  MatchChainName(line),
                  IF PushChain(chains, currentChain, rules) = chains THEN rules ELSE <<>>)
         ELSE IF IsRuleLine(line)
         THEN ListingScanKeepingRules(lines, i + 1, chains, currentChain,
                  WithListingRule(rules, SplitSpace(Trim(line))))
         ELSE ListingScanKeepingRules(lines, i + 1, chains, currentChain, rules)

\* the loop over the lines from index i on, then the push of the last chain
RECURSIVE ListingScan(_, _, _, _, _)
ListingScan(lines, i, chains, currentChain, rules) ==
    IF i > Len(lines) THEN PushChain(chains, currentChain, rules)
    ELSE LET line == lines[i] IN
         IF StartsWith(line, <<"C", "h", "a", "i", "n">>)
         THEN ListingScan(lines, i + 1, PushChain(chains, currentChain, rules),
                  MatchChainName(line), <<>>)
         ELSE IF IsRuleLine(line)
         THEN ListingScan(lines, i + 1, chains, currentChain,
                  WithListingRule(rules, SplitSpace(Trim(line))))
         ELSE ListingScan(lines, i + 1, chains, currentChain, rules)

parseIptablesOutput(output) == ListingScan(SplitLines(output), 1, <<>>, Null, <<>>)

(***************************************************************************)
(* parseRuleContent: the options of one rule of the iptables-save format.  *)
(***************************************************************************)
\* tokens[i] of a JavaScript array (1-based here): Undefined past the end
TokenAt(tokens, i) == IF i \in 1..Len(tokens) THEN Str(tokens[i]) ELSE Undefined

\* an assignment that leaves a field that is already set as it is
SetFieldOnce(parsed, field, value) ==
    IF parsed[field] = Null THEN [parsed EXCEPT ![field] = value] ELSE parsed

\* parsed.<field> = tokens[++i]
SetField(parsed, field, value) == [parsed EXCEPT ![field] = value]

\* a test that pairs an option with whatever token follows it
PairedWithAny(next) == next.k = "string" /\ next.v # <<>>

\* tokens[i + 1] && !tokens[i + 1].startsWith('-')
Paired(next) == next.k = "string" /\ next.v # <<>> /\ ~StartsWith(next.v, <<"-">>)

\* token + (... ? ' ' + tokens[++i] : '')
OtherEntry(token, next) == IF Paired(next) THEN token \o <<" ">> \o next.v ELSE token

\* a default case that keeps every token: one that is no option is an entry
\* of other of its own
SkippedIntoOther(parsed, token) == [parsed EXCEPT !.other = Append(@, token)]

\* a default case that keeps the negation mark
SkippedButNegation(parsed, token) ==
    IF token = <<"!">> THEN [parsed EXCEPT !.other = Append(@, token)] ELSE parsed

\* default: a token that does not start with '-' is stored nowhere
Skipped(parsed, token) == parsed

\* the loop over the tokens from index i on
RECURSIVE RuleContentScan(_, _, _)
RuleContentScan(tokens, i, parsed) ==
    IF i > Len(tokens) THEN parsed
    ELSE LET token == tokens[i]
             next == TokenAt(tokens, i + 1)
         IN
         IF token = <<"-", "p">>
         THEN RuleContentScan(tokens, i + 2, SetField(parsed, "protocol", next))
         ELSE IF token = <<"-", "s">>
         THEN RuleContentScan(tokens, i + 2, SetField(parsed, "source", next))
         ELSE IF token = <<"-", "d">>
         THEN RuleContentScan(tokens, i + 2, SetField(parsed, "destination", next))
         ELSE IF token = <<"-", "-", "s", "p", "o", "r", "t">>
         THEN RuleContentScan(tokens, i + 2, SetField(parsed, "sport", next))
         ELSE IF token = <<"-", "-", "d", "p", "o", "r", "t">>
         THEN RuleContentScan(tokens, i + 2, SetField(parsed, "dport", next))
         ELSE IF token = <<"-", "j">>
         THEN RuleContentScan(tokens, i + 2, SetField(parsed, "target", next))
         ELSE IF token = <<"-", "-", "t", "o", "-", "d", "e", "s", "t", "i", "n", "a", "t", "i", "o", "n">>
         THEN RuleContentScan(tokens, i + 2, SetField(parsed, "toDestination", next))
         ELSE IF StartsWith(token, <<"-">>)
         THEN RuleContentScan(tokens, IF Paired(next) THEN i + 2 ELSE i + 1,
                  [parsed EXCEPT !.other = Append(@, OtherEntry(token, next))])
         ELSE RuleContentScan(tokens, i + 1, Skipped(parsed, token))

parseRuleContent(content) ==
    RuleContentScan(SplitSpace(content), 1,
        [protocol |-> Null, source |-> Null, destination |-> Null, sport |-> Null,
         dport |-> Null, target |-> Null, toDestination |-> Null, other |-> <<>>])

(***************************************************************************)
(* parseIptablesSave: the iptables-save dump.                              *)
(***************************************************************************)
\* /:(\S+)\s+(\S+)/ matches at position i
ChainDeclAt(s, i) ==
    /\ At(s, i, <<":">>)
    /\ NonSpaceEnd(s, i + 1) > i + 1
    /\ SpaceEnd(s, NonSpaceEnd(s, i + 1)) > NonSpaceEnd(s, i + 1)
    /\ SpaceEnd(s, NonSpaceEnd(s, i + 1)) <= Len(s)

FindChainDecl(s, i) ==
    LET found == {j \in i..Len(s) : ChainDeclAt(s, j)}
    IN  IF found = {} THEN 0 ELSE Least(found)

\* /-A\s+(\S+)\s+(.*)/ matches at position i
AppendAt(s, i) ==
    /\ At(s, i, <<"-", "A">>)
    /\ SpaceEnd(s, i + 2) > i + 2
    /\ NonSpaceEnd(s, SpaceEnd(s, i + 2)) > SpaceEnd(s, i + 2)
    /\ SpaceEnd(s, NonSpaceEnd(s, SpaceEnd(s, i + 2))) > NonSpaceEnd(s, SpaceEnd(s, i + 2))

FindAppend(s, i) ==
    LET found == {j \in i..Len(s) : AppendAt(s, j)}
    IN  IF found = {} THEN 0 ELSE Least(found)

\* currentChains.find(c => c.chain === chainName): its index, or 0
RECURSIVE FindChain(_, _, _)
FindChain(chains, chainName, i) ==
    IF i > Len(chains) THEN 0
    ELSE IF chains[i].chain = chainName THEN i
    ELSE FindChain(chains, chainName, i + 1)

\* the property name whose assignment sets the prototype of an object made
\* by {} and adds no key to it
ProtoName == <<"_", "_", "p", "r", "o", "t", "o", "_", "_">>

\* a flush that keeps the chains a key already has
FlushKeepingFirst(tables, currentTable, currentChains) ==
    IF currentTable # Null /\ currentTable.v # <<>> /\ currentTable.v # ProtoName
       /\ currentTable.v \notin DOMAIN tables
    THEN [t \in DOMAIN tables \cup {currentTable.v} |->
             IF t = currentTable.v THEN currentChains ELSE tables[t]]
    ELSE tables

\* tables[currentTable] = currentChains, when currentTable is truthy
Flush(tables, currentTable, currentChains) ==
    IF currentTable # Null /\ currentTable.v # <<>> /\ currentTable.v # ProtoName
    THEN [t \in DOMAIN tables \cup {currentTable.v} |->
             IF t = currentTable.v THEN currentChains ELSE tables[t]]
    ELSE tables

\* the chain line: a chain pushed when the line matches
WithChainDecl(currentChains, line) ==
    LET i == FindChainDecl(line, 1)
        nameEnd == NonSpaceEnd(line, i + 1)
        polStart == SpaceEnd(line, nameEnd)
    IN  IF i = 0 THEN currentChains
        ELSE Append(currentChains,
                 [chain |-> SubSeq(line, i + 1, nameEnd - 1),
                  policy |-> SubSeq(line, polStart, NonSpaceEnd(line, polStart) - 1),
                  rules |-> <<>>])

\* a rule line that declares the chain of its name when there is none
WithRuleDeclaring(currentChains, line) ==
    LET i == FindAppend(line, 1)
        nameStart == SpaceEnd(line, i + 2)
        nameEnd == NonSpaceEnd(line, nameStart)
        chainName == SubSeq(line, nameStart, nameEnd - 1)
        ruleContent == From(line, SpaceEnd(line, nameEnd))
        c == FindChain(currentChains, chainName, 1)
        rule == [raw |-> line, content |-> ruleContent,
                 parsed |-> parseRuleContent(ruleContent)]
    IN  IF i = 0 THEN currentChains
        ELSE IF c = 0
        THEN Append(currentChains,
                    [chain |-> chainName, policy |-> <<"-">>, rules |-> <<rule>>])
        ELSE [currentChains EXCEPT ![c].rules = Append(@, rule)]

\* the rule line: a rule pushed onto the chain of its name, when there is one
WithRule(currentChains, line) ==
    LET i == FindAppend(line, 1)
        nameStart == SpaceEnd(line, i + 2)
        nameEnd == NonSpaceEnd(line, nameStart)
        chainName == SubSeq(line, nameStart, nameEnd - 1)
        ruleContent == From(line, SpaceEnd(line, nameEnd))
        c == FindChain(currentChains, chainName, 1)
    IN  IF i = 0 \/ currentChains = <<>> \/ c = 0 THEN currentChains
        ELSE [currentChains EXCEPT ![c].rules =
                 Append(@, [raw |-> line, content |-> ruleContent,
                            parsed |-> parseRuleContent(ruleContent)])]

\* the loop over the lines from index i on, then the flush of the last table
RECURSIVE SaveScan(_, _, _, _, _)
SaveScan(lines, i, tables, currentTable, currentChains) ==
    IF i > Len(lines) THEN Flush(tables, currentTable, currentChains)
    ELSE LET line == lines[i] IN
         IF StartsWith(line, <<"*">>)
         THEN SaveScan(lines, i + 1, Flush(tables, currentTable, currentChains),
                       Str(From(line, 2)), <<>>)
         ELSE IF StartsWith(line, <<":">>)
         THEN SaveScan(lines, i + 1, tables, currentTable, WithChainDecl(currentChains, line))
         ELSE IF StartsWith(line, <<"-", "A", " ">>)
         THEN SaveScan(lines, i + 1, tables, currentTable, WithRule(currentChains, line))
         ELSE SaveScan(lines, i + 1, tables, currentTable, currentChains)

parseIptablesSave(output) == SaveScan(SplitLines(output), 1, <<>>, Null, <<>>)

(***************************************************************************)
(* Inputs and remote behaviour the model draws from.                       *)
(***************************************************************************)
\* session keys the callers use
Sessions == {"s1", "s2"}

\* const tables = ['filter', 'nat', 'raw', 'mangle']
TableNames == <<<<"f", "i", "l", "t", "e", "r">>,
                <<"n", "a", "t">>,
                <<"r", "a", "w">>,
                <<"m", "a", "n", "g", "l", "e">>>>

\* the table arguments callers pass
TableArgs == {TableNames[1], TableNames[2]}

\* the rule text, chain and rule number callers pass
RuleArg == <<"-", "A", " ", "I", " ", "-", "j", " ", "T">>

ChainArg == <<"I">>

NumArg == <<"1">>

\* the command a caller hands to executeCommand directly
CommandArg == <<"i", "d">>

\* err.message of the transport's errors
TransportMessages == {"ECONNREFUSED", "ECONNRESET"}

\* error.message of a failed readFileSync
ReadMessage == "ENOENT"

\* error.message thrown by conn.connect for a configuration it refuses
ConfigMessage == "Cannot parse privateKey"

\* error.message thrown by conn.exec on a connection that is not established
NotConnectedMessage == "Not connected"

\* what the remote process writes to stdout in one data event
ListingChunk == <<"C", "h", "a", "i", "n", " ", "I", "\n", "1", " ", "0", " ", "0", " ", "T", " ", "p", " ", "o", " ", "s", " ", "d", " ", "d", "p", "t", ":", "8", "\n">>

DumpChunk == <<"*", "n", "a", "t", "\n", ":", "I", " ", "P", "\n", "-", "A", " ", "I", " ", "-", "j", " ", "T", "\n">>

StdoutChunks == {ListingChunk, DumpChunk}

\* what the remote process writes to stderr in one data event
StderrChunks == {<<"E", "\n">>}

\* the exit codes the remote process reports
ExitCodes == {0, 1}

(***************************************************************************)
(* Promise settlements and errors.  Every error of the service is an Error *)
(* told apart by the prefix of its message; the type field names it.       *)
(***************************************************************************)
Pending == [type |-> "pending"]

\* resolve(true), resolve(stdout), return {...}
ResolvedTrue == [type |-> "resolved"]

Stdout(text) == [type |-> "stdout", stdout |-> text]

Ok(value) == [type |-> "ok", value |-> value]

\* new Error(`Erreur de lecture de la cle privee: ${error.message}`)
KeyReadError(m) == [type |-> "KeyReadError", message |-> m]

\* new Error(`Echec de la connexion SSH: ${err.message}`)
ConnectionError(m) == [type |-> "ConnectionError", message |-> m]

\* new Error('Aucune connexion SSH active. Veuillez vous connecter d\'abord.')
NoActiveConnectionError == [type |-> "NoActiveConnectionError"]

\* new Error(`Erreur d'execution: ${err.message}`)
ExecutionError(m) == [type |-> "ExecutionError", message |-> m]

\* the error conn.exec throws, which rejects the promise as it is
TransportError(m) == [type |-> "TransportError", message |-> m]

\* new Error(`Commande echouee (code ${code}): ${stderr}`)
CommandExecutionError(code, stderr) ==
    [type |-> "CommandExecutionError", exitCode |-> code, stderr |-> stderr]

(***************************************************************************)
(* The remote command of each service method.                              *)
(***************************************************************************)
\* `sudo iptables -t ${table} -L -n -v --line-numbers`
ListCommand(table) ==
    <<"s", "u", "d", "o", " ", "i", "p", "t", "a", "b", "l", "e", "s", " ", "-", "t", " ">>
    \o table \o
    <<" ", "-", "L", " ", "-", "n", " ", "-", "v", " ", "-", "-", "l", "i", "n", "e", "-", "n", "u", "m", "b", "e", "r", "s">>

\* 'sudo iptables-save'
DumpCommand == <<"s", "u", "d", "o", " ", "i", "p", "t", "a", "b", "l", "e", "s", "-", "s", "a", "v", "e">>

\* a table option written for every table, filter included
TableOptionAlways(table) == <<"-", "t", " ">> \o table \o <<" ">>

\* table !== 'filter' ? `-t ${table} ` : ''
TableOption(table) == IF table # TableNames[1] THEN <<"-", "t", " ">> \o table \o <<" ">> ELSE <<>>

\* `sudo iptables ${tableOption}${rule}`
AddCommand(rule, table) == <<"s", "u", "d", "o", " ", "i", "p", "t", "a", "b", "l", "e", "s", " ">> \o TableOption(table) \o rule

\* `sudo iptables ${tableOption}-D ${chain} ${ruleNumber}`
DeleteCommand(chain, ruleNumber, table) ==
    <<"s", "u", "d", "o", " ", "i", "p", "t", "a", "b", "l", "e", "s", " ">> \o TableOption(table)
    \o <<"-", "D", " ">> \o chain \o <<" ">> \o ruleNumber

\* 'sudo iptables-save > /etc/iptables/rules.v4'
SaveCommand ==
    <<"s", "u", "d", "o", " ", "i", "p", "t", "a", "b", "l", "e", "s", "-", "s", "a", "v", "e", " ", ">", " ", "/", "e", "t", "c", "/", "i", "p", "t", "a", "b", "l", "e", "s", "/", "r", "u", "l", "e", "s", ".", "v", "4">>

\* 'sudo iptables-restore < /etc/iptables/rules.v4'
RestoreCommand ==
    <<"s", "u", "d", "o", " ", "i", "p", "t", "a", "b", "l", "e", "s", "-", "r", "e", "s", "t", "o", "r", "e", " ", "<", " ", "/", "e", "t", "c", "/", "i", "p", "t", "a", "b", "l", "e", "s", "/", "r", "u", "l", "e", "s", ".", "v", "4">>

(***************************************************************************)
(* State.                                                                  *)
(***************************************************************************)
VARIABLES
    connections,   \* this.connections: session key -> index of its Client in clients
    clients,       \* every Client created by connect, with the promise of its call
    ops,           \* every call of executeCommand or of a service method
    wire,          \* the commands handed to a transport, in order
    opened,        \* history: sessions one of whose connect calls has resolved
    closedSince,   \* history: sessions disconnected with no connect call since
    input,         \* the text handed to a parser, as the pieces it is made of
    output         \* the parser applied to input and what it returned

vars == <<connections, clients, ops, wire, opened, closedSince, input, output>>

\* no text is handed to a parser, no parser has returned
NoInput == [family |-> "none", pieces |-> <<>>]

NotParsed == [parser |-> "none"]

\* the empty Map
EmptyMap == [x \in {} |-> 0]

\* Map.prototype.set
MapSet(map, key, value) ==
    [x \in DOMAIN map \cup {key} |-> IF x = key THEN value ELSE map[x]]

\* Map.prototype.delete
MapDelete(map, key) == [x \in DOMAIN map \ {key} |-> map[x]]

\* isConnected(sessionId): this.connections.has(sessionId)
isConnected(sessionId) == sessionId \in DOMAIN connections

\* a connection that is established and has neither ended nor failed
Live(c) == clients[c].state = "ready"

Init ==
    /\ connections = EmptyMap
    /\ clients = <<>>
    /\ ops = <<>>
    /\ wire = <<>>
    /\ opened = {}
    /\ closedSince = {}
    /\ input = NoInput
    /\ output = NotParsed

(***************************************************************************)
(* connect, its handlers, and disconnect.                                  *)
(***************************************************************************)
\* the body of the promise of connect, up to the return of conn.connect
ConnectOutcome(keyReadable, configAccepted) ==
    IF ~keyReadable
    THEN [state |-> "new", promise |-> KeyReadError(ReadMessage),
          keyRead |-> "failed", dialled |-> FALSE, lastError |-> ""]
    ELSE IF ~configAccepted
    THEN [state |-> "new", promise |-> KeyReadError(ConfigMessage),
          keyRead |-> "ok", dialled |-> FALSE, lastError |-> ""]
    ELSE [state |-> "connecting", promise |-> Pending, keyRead |-> "ok", dialled |-> TRUE,
          lastError |-> ""]

\* connect(sessionId, config): config.privateKeyPath is readable or not, and
\* conn.connect accepts the configuration or throws
connect(sessionId, keyReadable, configAccepted) ==
    /\ clients' = Append(clients,
           [session |-> sessionId] @@ ConnectOutcome(keyReadable, configAccepted))
    /\ closedSince' = closedSince \ {sessionId}
    /\ UNCHANGED <<connections, ops, wire, opened, input, output>>

\* conn.on('ready'): the connection is registered and the promise resolved
ConnReady(c) ==
    /\ clients[c].state = "connecting"
    /\ connections' = MapSet(connections, clients[c].session, c)
    /\ clients' = [clients EXCEPT ![c].state = "ready", ![c].promise = ResolvedTrue]
    /\ opened' = opened \cup {clients[c].session}
    /\ UNCHANGED <<ops, wire, closedSince, input, output>>

\* reject(new Error(...)) of the error handler: a settled promise stays as it is
RejectConnect(promise, message) ==
    IF promise = Pending THEN ConnectionError(message) ELSE promise

\* an error handler that also drops the entry of the session
ConnErrorUnregisters(c, message) ==
    /\ clients[c].state \in {"connecting", "ready"}
    /\ clients' = [clients EXCEPT ![c].state = "failed",
                                  ![c].promise = RejectConnect(@, message),
                                  ![c].lastError = message]
    /\ connections' = MapDelete(connections, clients[c].session)
    /\ UNCHANGED <<ops, wire, opened, closedSince, input, output>>

\* conn.on('error'): while connecting, or later on the established connection
ConnError(c, message) ==
    /\ clients[c].state \in {"connecting", "ready"}
    /\ clients' = [clients EXCEPT ![c].state = "failed",
                                  ![c].promise = RejectConnect(@, message),
                                  ![c].lastError = message]
    /\ UNCHANGED <<connections, ops, wire, opened, closedSince, input, output>>

\* the peer closes an established connection: no handler is registered for it
ConnEnd(c) ==
    /\ clients[c].state = "ready"
    /\ clients' = [clients EXCEPT ![c].state = "ended"]
    /\ UNCHANGED <<connections, ops, wire, opened, closedSince, input, output>>

\* a disconnect that empties the registry
disconnectAll(sessionId) ==
    /\ IF sessionId \in DOMAIN connections
       THEN /\ clients' = [clients EXCEPT ![connections[sessionId]].state =
                              IF @ = "ready" THEN "ended" ELSE @]
            /\ connections' = EmptyMap
       ELSE UNCHANGED <<clients, connections>>
    /\ closedSince' = closedSince \cup {sessionId}
    /\ UNCHANGED <<ops, wire, opened, input, output>>

\* a disconnect that ends the connection and leaves its entry in the registry
disconnectKeepingEntry(sessionId) ==
    /\ IF sessionId \in DOMAIN connections
       THEN clients' = [clients EXCEPT ![connections[sessionId]].state =
                           IF @ = "ready" THEN "ended" ELSE @]
       ELSE UNCHANGED clients
    /\ closedSince' = closedSince \cup {sessionId}
    /\ UNCHANGED <<connections, ops, wire, opened, input, output>>

\* disconnect(sessionId)
disconnect(sessionId) ==
    /\ IF sessionId \in DOMAIN connections
       THEN /\ clients' = [clients EXCEPT ![connections[sessionId]].state =
                              IF @ = "ready" THEN "ended" ELSE @]
            /\ connections' = MapDelete(connections, sessionId)
       ELSE UNCHANGED <<clients, connections>>
    /\ closedSince' = closedSince \cup {sessionId}
    /\ UNCHANGED <<ops, wire, opened, input, output>>

(***************************************************************************)
(* executeCommand and the service methods.  An op is one call: its         *)
(* arguments, where it stands, the buffers of the channel it awaits, what  *)
(* it has accumulated and its settlement.  runs records, for each          *)
(* executeCommand the call made and saw settle, what happened on it.       *)
(***************************************************************************)
Kinds == {"executeCommand", "listAllRules", "listRules", "getIptablesSave",
          "addRule", "deleteRule", "saveRules", "restoreRules"}

NewOp(kind, sessionId, table) ==
    [kind |-> kind, session |-> sessionId, table |-> table,
     pc |-> "start", step |-> 1, client |-> 0, wireIdx |-> 0, command |-> <<>>,
     stdout |-> <<>>, stderr |-> <<>>, outChunks |-> <<>>, errChunks |-> <<>>,
     allRules |-> EmptyMap, runs |-> <<>>, result |-> Pending]

\* the record of a settled executeCommand of op: whether the session had an
\* entry at the call, whether the channel was opened, the error message of the
\* transport and the exit code of the process if any, and the settlement
RunRecord(op, command, hadEntry, streamed, message, exitCode, outcome) ==
    [command |-> command, hadEntry |-> hadEntry, client |-> op.client,
     wireIdx |-> op.wireIdx, streamed |-> streamed, message |-> message,
     exitCode |-> exitCode, outChunks |-> op.outChunks, errChunks |-> op.errChunks,
     outcome |-> outcome]

\* the op once the executeCommand it awaited has settled
Settled(op, run) ==
    [op EXCEPT !.pc = "resumed", !.client = 0, !.wireIdx = 0, !.command = <<>>,
               !.stdout = <<>>, !.stderr = <<>>, !.outChunks = <<>>, !.errChunks = <<>>,
               !.runs = Append(@, run)]

\* the method returns or throws
Done(op, result) == [op EXCEPT !.pc = "done", !.result = result]

\* try { allRules[table] = this.parseIptablesOutput(output) } catch { allRules[table] = [] }
TableValue(outcome) ==
    IF outcome.type = "stdout" THEN parseIptablesOutput(outcome.stdout) ELSE <<>>

\* a listRules that answers a failed command with an empty list
listRulesReturnEmpty(outcome) ==
    IF outcome.type = "stdout" THEN Ok(parseIptablesOutput(outcome.stdout)) ELSE Ok(<<>>)

\* const output = await this.executeCommand(...); return this.parseIptablesOutput(output)
listRulesReturn(outcome) ==
    IF outcome.type = "stdout" THEN Ok(parseIptablesOutput(outcome.stdout)) ELSE outcome

\* const output = await this.executeCommand(...); return this.parseIptablesSave(output)
getIptablesSaveReturn(outcome) ==
    IF outcome.type = "stdout" THEN Ok(parseIptablesSave(outcome.stdout)) ELSE outcome

\* await this.executeCommand(...); return { success: true, message }
SuccessReturn(outcome, message) ==
    IF outcome.type = "stdout" THEN Ok(message) ELSE outcome

\* the command of a method that sends one command
CommandOf(op) ==
    CASE op.kind = "executeCommand" -> CommandArg
      [] op.kind = "listRules" -> ListCommand(op.table)
      [] op.kind = "getIptablesSave" -> DumpCommand
      [] op.kind = "addRule" -> AddCommand(RuleArg, op.table)
      [] op.kind = "deleteRule" -> DeleteCommand(ChainArg, NumArg, op.table)
      [] op.kind = "saveRules" -> SaveCommand
      [] op.kind = "restoreRules" -> RestoreCommand

\* what a method that sends one command does with the settlement of its command
ReturnOf(op, outcome) ==
    CASE op.kind = "executeCommand" -> outcome
      [] op.kind = "listRules" -> listRulesReturn(outcome)
      [] op.kind = "getIptablesSave" -> getIptablesSaveReturn(outcome)
      [] op.kind = "addRule" -> SuccessReturn(outcome, "Regle ajoutee avec succes")
      [] op.kind = "deleteRule" -> SuccessReturn(outcome, "Regle supprimee avec succes")
      [] op.kind = "saveRules" -> SuccessReturn(outcome, "Configuration sauvegardee")
      [] op.kind = "restoreRules" -> SuccessReturn(outcome, "Configuration restauree")

\* executeCommand up to conn.exec: what the call does at once.  Either the
\* command is on the wire and the op awaits the channel (settled FALSE), or the
\* promise is rejected at once with outcome
\* a call that finds no connection but hands its command to a transport all the same
ExecStartUnchecked(sessionId, command) ==
    IF sessionId \notin DOMAIN connections
    THEN [settled |-> FALSE, client |-> 0, message |-> "", outcome |-> Pending]
    ELSE IF ~Live(connections[sessionId])
    THEN [settled |-> TRUE, client |-> connections[sessionId],
          message |-> NotConnectedMessage, outcome |-> TransportError(NotConnectedMessage)]
    ELSE [settled |-> FALSE, client |-> connections[sessionId], message |-> "",
          outcome |-> Pending]

ExecStart(sessionId, command) ==
    IF sessionId \notin DOMAIN connections
    THEN [settled |-> TRUE, client |-> 0, message |-> "", outcome |-> NoActiveConnectionError]
    ELSE IF ~Live(connections[sessionId])
    THEN [settled |-> TRUE, client |-> connections[sessionId],
          message |-> NotConnectedMessage, outcome |-> TransportError(NotConnectedMessage)]
    ELSE [settled |-> FALSE, client |-> connections[sessionId], message |-> "",
          outcome |-> Pending]

\* the op waiting for the callback of conn.exec, its command on the wire w
Awaiting(op, w, command, client) ==
    [op |-> [op EXCEPT !.pc = "exec", !.client = client, !.command = command,
                       !.wireIdx = Len(w) + 1],
     wire |-> Append(w, [client |-> client, command |-> command])]

\* a loop that does not await: with the command of a table it also hands the
\* command of the next table to the transport
RECURSIVE listAllRulesLoopEager(_, _)
listAllRulesLoopEager(op, w) ==
    IF op.step > Len(TableNames) THEN [op |-> Done(op, Ok(op.allRules)), wire |-> w]
    ELSE LET command == ListCommand(TableNames[op.step])
             start == ExecStart(op.session, command)
         IN  IF ~start.settled
             THEN IF op.step < Len(TableNames)
                  THEN Awaiting(op,
                           Append(w, [client |-> start.client,
                                      command |-> ListCommand(TableNames[op.step + 1])]),
                           command, start.client)
                  ELSE Awaiting(op, w, command, start.client)
             ELSE listAllRulesLoopEager(
                      [Settled([op EXCEPT !.client = start.client],
                               RunRecord([op EXCEPT !.client = start.client], command,
                                         isConnected(op.session), FALSE,
                                         start.message, -1, start.outcome))
                          EXCEPT !.allRules = MapSet(@, TableNames[op.step],
                                                     TableValue(start.outcome)),
                                 !.step = @ + 1],
                      w)

\* the loop of listAllRules from table number op.step on: it goes on until a
\* command is on the wire or the four tables are done
RECURSIVE listAllRulesLoop(_, _)
listAllRulesLoop(op, w) ==
    IF op.step > Len(TableNames) THEN [op |-> Done(op, Ok(op.allRules)), wire |-> w]
    ELSE LET command == ListCommand(TableNames[op.step])
             start == ExecStart(op.session, command)
         IN  IF ~start.settled THEN Awaiting(op, w, command, start.client)
             ELSE listAllRulesLoop(
                      [Settled([op EXCEPT !.client = start.client],
                               RunRecord([op EXCEPT !.client = start.client], command,
                                         isConnected(op.session), FALSE,
                                         start.message, -1, start.outcome))
                          EXCEPT !.allRules = MapSet(@, TableNames[op.step],
                                                     TableValue(start.outcome)),
                                 !.step = @ + 1],
                      w)

\* a method that sends one command, from its call on
SingleStart(op, w) ==
    LET command == CommandOf(op)
        start == ExecStart(op.session, command)
    IN  IF ~start.settled THEN Awaiting(op, w, command, start.client)
        ELSE [op |-> Done(Settled([op EXCEPT !.client = start.client],
                                  RunRecord([op EXCEPT !.client = start.client], command,
                                            isConnected(op.session), FALSE,
                                            start.message, -1, start.outcome)),
                          ReturnOf(op, start.outcome)),
              wire |-> w]

\* the method of op, from its call on
Start(op, w) ==
    IF op.kind = "listAllRules" THEN listAllRulesLoop(op, w) ELSE SingleStart(op, w)

\* the method of op, from the settlement of the executeCommand it awaits on
\* a listAllRules without its try/catch: the first failed command ends the call
ResumeAborting(op, w, streamed, message, exitCode, outcome) ==
    LET run == RunRecord(op, op.command, op.client # 0, streamed, message, exitCode, outcome)
        op1 == Settled(op, run)
    IN  IF op.kind = "listAllRules" /\ outcome.type = "stdout"
        THEN listAllRulesLoop(
                 [op1 EXCEPT !.allRules = MapSet(@, TableNames[op.step], TableValue(outcome)),
                             !.step = @ + 1],
                 w)
        ELSE [op |-> Done(op1, ReturnOf([op EXCEPT !.kind = "executeCommand"], outcome)),
              wire |-> w]

\* the method of op, from the settlement of the executeCommand it awaits on;
\* the command was handed to op.client, the entry of the session at the call
Resume(op, w, streamed, message, exitCode, outcome) ==
    LET run == RunRecord(op, op.command, op.client # 0, streamed, message, exitCode, outcome)
        op1 == Settled(op, run)
    IN  IF op.kind = "listAllRules"
        THEN listAllRulesLoop(
                 [op1 EXCEPT !.allRules = MapSet(@, TableNames[op.step], TableValue(outcome)),
                             !.step = @ + 1],
                 w)
        ELSE [op |-> Done(op1, ReturnOf(op, outcome)), wire |-> w]

\* the state of the call number o and the wire once a step of it is over
Commit(o, next) ==
    /\ ops' = IF o \in DOMAIN ops THEN [ops EXCEPT ![o] = next.op] ELSE Append(ops, next.op)
    /\ wire' = next.wire

\* a call of a method: executeCommand, or a service method
Call(kind, sessionId, table) ==
    /\ Commit(Len(ops) + 1, Start(NewOp(kind, sessionId, table), wire))
    /\ UNCHANGED <<connections, clients, opened, closedSince, input, output>>

\* a rejection that loses the message of the transport
ExecFailureNoMessage(message) == ExecutionError("")

\* if (err) { reject(new Error(...)); return; }
ExecFailure(message) == ExecutionError(message)

\* an exec callback that returns on an error without rejecting the promise
ExecFailedSilently(o, message) ==
    /\ ops[o].pc = "exec"
    /\ ops' = [ops EXCEPT ![o].pc = "abandoned"]
    /\ UNCHANGED <<connections, clients, wire, opened, closedSince, input, output>>

\* the callback of conn.exec is called with an error
ExecFailed(o, message) ==
    /\ ops[o].pc = "exec"
    /\ Commit(o, Resume(ops[o], wire, FALSE, message, -1, ExecFailure(message)))
    /\ UNCHANGED <<connections, clients, opened, closedSince, input, output>>

\* the callback of conn.exec is called with the stream
ExecStream(o) ==
    /\ ops[o].pc = "exec"
    /\ ops' = [ops EXCEPT ![o].pc = "stream"]
    /\ UNCHANGED <<connections, clients, wire, opened, closedSince, input, output>>

\* a buffer that grows at the front
PrependData(buffer, data) == data \o buffer

\* stdout += data.toString(), stderr += data.toString()
AppendData(buffer, data) == buffer \o data

\* stream.on('data')
StreamData(o, data) ==
    /\ ops[o].pc = "stream"
    /\ ops' = [ops EXCEPT ![o].stdout = AppendData(@, data),
                          ![o].outChunks = Append(@, data)]
    /\ UNCHANGED <<connections, clients, wire, opened, closedSince, input, output>>

\* stream.stderr.on('data')
StderrData(o, data) ==
    /\ ops[o].pc = "stream"
    /\ ops' = [ops EXCEPT ![o].stderr = AppendData(@, data),
                          ![o].errChunks = Append(@, data)]
    /\ UNCHANGED <<connections, clients, wire, opened, closedSince, input, output>>

\* the settlement of stream.on('close', (code) => ...)
CloseOutcome(code, stdout, stderr) ==
    IF code # 0 THEN CommandExecutionError(code, stderr) ELSE Stdout(stdout)

\* stream.on('close')
StreamClose(o, code) ==
    /\ ops[o].pc = "stream"
    /\ Commit(o, Resume(ops[o], wire, TRUE, "", code,
                         CloseOutcome(code, ops[o].stdout, ops[o].stderr)))
    /\ UNCHANGED <<connections, clients, opened, closedSince, input, output>>

(***************************************************************************)
(* Spec: the registry under connect and disconnect of two sessions.        *)
(***************************************************************************)
Next ==
    \/ \E s \in Sessions, keyReadable \in BOOLEAN, configAccepted \in BOOLEAN :
           Len(clients) < MaxClients /\ connect(s, keyReadable, configAccepted)
    \/ \E c \in DOMAIN clients : ConnReady(c)
    \/ \E c \in DOMAIN clients, m \in TransportMessages : ConnError(c, m)
    \/ \E c \in DOMAIN clients : ConnEnd(c)
    \/ \E s \in Sessions : disconnect(s)

Spec == Init /\ [][Next]_vars

(***************************************************************************)
(* The session the calls of RunSpec and ServiceSpec are made on, and what  *)
(* happens to its connections and on its channels meanwhile.               *)
(***************************************************************************)
ServiceSession == "s1"

RegistryNext ==
    \/ \E c \in DOMAIN clients : ConnReady(c)
    \/ \E c \in DOMAIN clients : ConnError(c, "ECONNREFUSED")
    \/ disconnect(ServiceSession)

\* the data events of the channels of op so far
RECURSIVE DataEventsOf(_)
DataEventsOf(runs) ==
    IF runs = <<>> THEN 0
    ELSE Len(runs[1].outChunks) + Len(runs[1].errChunks) + DataEventsOf(Tail(runs))

DataEvents(op) == Len(op.outChunks) + Len(op.errChunks) + DataEventsOf(op.runs)

(***************************************************************************)
(* RunSpec: executeCommand called on a session whose connection is opened, *)
(* lost and closed meanwhile.                                              *)
(***************************************************************************)
RunNext ==
    \/ Len(clients) < MaxRunClients /\ connect(ServiceSession, TRUE, TRUE)
    \/ RegistryNext
    \/ Len(ops) < MaxOps /\ Call("executeCommand", ServiceSession, TableNames[1])
    \/ \E o \in DOMAIN ops, m \in TransportMessages : ExecFailed(o, m)
    \/ \E o \in DOMAIN ops : ExecStream(o)
    \/ \E o \in DOMAIN ops, data \in StdoutChunks :
           DataEvents(ops[o]) < MaxChunks /\ StreamData(o, data)
    \/ \E o \in DOMAIN ops, data \in StderrChunks :
           DataEvents(ops[o]) < MaxChunks /\ StderrData(o, data)
    \/ \E o \in DOMAIN ops, code \in ExitCodes : StreamClose(o, code)

RunSpec == Init /\ [][RunNext]_vars

(***************************************************************************)
(* ServiceSpec: one call of a service method on that session, which is     *)
(* opened once.  The remote process answers the dump command with a dump   *)
(* and any other command with a listing.                                   *)
(***************************************************************************)
RemoteStdout(op) == IF op.kind = "getIptablesSave" THEN DumpChunk ELSE ListingChunk

(***************************************************************************)
(* RunLiveSpec: executeCommand as in RunSpec, where the transport calls     *)
(* back for every command it was handed and every channel that was opened  *)
(* is closed in the end.                                                   *)
(***************************************************************************)
RunLiveNext ==
    \/ Len(clients) < MaxRunClients /\ connect(ServiceSession, TRUE, TRUE)
    \/ RegistryNext
    \/ Len(ops) < MaxOps /\ Call("executeCommand", ServiceSession, TableNames[1])
    \/ \E o \in DOMAIN ops, m \in TransportMessages : ExecFailed(o, m)
    \/ \E o \in DOMAIN ops : ExecStream(o)
    \/ \E o \in DOMAIN ops, data \in StdoutChunks :
           DataEvents(ops[o]) < MaxLiveChunks /\ StreamData(o, data)
    \/ \E o \in DOMAIN ops, data \in StderrChunks :
           DataEvents(ops[o]) < MaxLiveChunks /\ StderrData(o, data)
    \/ \E o \in DOMAIN ops, code \in ExitCodes : StreamClose(o, code)

\* the transport calls the callback of conn.exec for the call number o
ExecCallback(o) ==
    /\ o \in DOMAIN ops
    /\ (ExecStream(o) \/ \E m \in TransportMessages : ExecFailed(o, m))

\* the channel of the call number o reports the end of the remote process
ChannelCompletes(o) ==
    /\ o \in DOMAIN ops
    /\ \E code \in ExitCodes : StreamClose(o, code)

RunLiveSpec ==
    /\ Init /\ [][RunLiveNext]_vars
    /\ \A o \in 1..MaxOps : WF_vars(ExecCallback(o)) /\ WF_vars(ChannelCompletes(o))

ServiceNext ==
    \/ clients = <<>> /\ connect(ServiceSession, TRUE, TRUE)
    \/ RegistryNext
    \/ \E kind \in Kinds \ {"executeCommand"}, table \in TableArgs :
           ops = <<>> /\ Call(kind, ServiceSession, table)
    \/ \E o \in DOMAIN ops : ExecFailed(o, "ECONNRESET")
    \/ \E o \in DOMAIN ops : ExecStream(o)
    \/ \E o \in DOMAIN ops :
           DataEvents(ops[o]) < MaxServiceChunks /\ StreamData(o, RemoteStdout(ops[o]))
    \/ \E o \in DOMAIN ops, data \in StderrChunks :
           DataEvents(ops[o]) < MaxServiceChunks /\ StderrData(o, data)
    \/ \E o \in DOMAIN ops, code \in ExitCodes : StreamClose(o, code)

ServiceSpec == Init /\ [][ServiceNext]_vars

(***************************************************************************)
(* PairSpec: two sessions are opened, used and closed side by side.        *)
(***************************************************************************)
PairNext ==
    \/ \E s \in Sessions : Len(clients) < MaxPairClients /\ connect(s, TRUE, TRUE)
    \/ \E c \in DOMAIN clients : ConnReady(c)
    \/ \E c \in DOMAIN clients : ConnError(c, "ECONNREFUSED")
    \/ \E s \in Sessions : disconnect(s)
    \/ \E s \in Sessions :
           Len(ops) < MaxPairOps /\ Call("executeCommand", s, TableNames[1])
    \/ \E o \in DOMAIN ops : ExecStream(o)
    \/ \E o \in DOMAIN ops : StreamClose(o, 0)

PairSpec == Init /\ [][PairNext]_vars

(***************************************************************************)
(* ParseSpec: a text is handed to one of the four parsers.  The text is    *)
(* made of pieces, lines joined by line feeds or words joined by spaces;   *)
(* each piece carries, beside its text, what it is meant to be: its kind,  *)
(* the name it declares or addresses and the value it gives.               *)
(***************************************************************************)
\* lines of the output of `iptables -L -n -v --line-numbers`: chain headers, the
\* column header, rule lines of 8 and 10 columns (name is the rule number, value
\* the extra string; the columns of one are set apart by several blanks), a
\* rule line of 7 columns, a header with no chain name
ListingLines ==
    {[kind |-> "header", name |-> <<"I">>, value |-> <<>>,
     text |-> <<"C", "h", "a", "i", "n", " ", "I", " ", "(", "p", "o", "l", "i", "c", "y", " ", "P", ")">>],
     [kind |-> "header", name |-> <<"O">>, value |-> <<>>,
     text |-> <<"C", "h", "a", "i", "n", " ", "O", " ", "(", "x", ")">>],
     [kind |-> "other", name |-> <<>>, value |-> <<>>,
     text |-> <<"n", "u", "m", " ", "p", "k", "t", "s">>],
     [kind |-> "rule", name |-> <<"1">>, value |-> <<>>,
     text |-> <<"1", " ", "0", " ", "0", " ", "T", " ", "p", " ", "o", " ", "s", " ", "d">>],
     [kind |-> "rule", name |-> <<"2">>, value |-> <<"x", " ", "d", "p", "t", ":", "8">>,
     text |-> <<" ", "2", " ", "0", " ", "0", " ", "T", " ", "p", " ", "o", " ", "s", " ", "d", " ", " ", "x", " ", " ", " ", "d", "p", "t", ":", "8">>],
     [kind |-> "rule", name |-> <<"0">>, value |-> <<>>,
     text |-> <<"0", " ", "9", " ", "0", " ", "T", " ", "p", " ", "o", " ", "s", " ", "d">>],
     [kind |-> "short", name |-> <<>>, value |-> <<>>,
     text |-> <<"3", " ", "0", " ", "0", " ", "T", " ", "p", " ", "o", " ", "s">>],
     [kind |-> "badheader", name |-> <<>>, value |-> <<>>,
     text |-> <<"C", "h", "a", "i", "n">>]}

\* lines of the output of `iptables-save`: table headers, chain declarations, rule
\* lines (name is the chain, value the content), COMMIT
DumpLines ==
    {[kind |-> "table", name |-> <<"f", "i", "l", "t", "e", "r">>, value |-> <<>>,
     text |-> <<"*", "f", "i", "l", "t", "e", "r">>],
     [kind |-> "table", name |-> <<>>, value |-> <<>>,
     text |-> <<"*">>],
     [kind |-> "table", name |-> ProtoName, value |-> <<>>,
     text |-> <<"*">> \o ProtoName],
     [kind |-> "table", name |-> <<"s", "e", "c", "u", "r", "i", "t", "y">>, value |-> <<>>,
     text |-> <<"*", "s", "e", "c", "u", "r", "i", "t", "y">>],
     [kind |-> "chain", name |-> <<"I">>, value |-> <<"P">>,
     text |-> <<":", "I", " ", "P", " ", "[", "0", ":", "0", "]">>],
     [kind |-> "chain", name |-> <<"O">>, value |-> <<"P">>,
     text |-> <<":", "O", " ", "P">>],
     [kind |-> "append", name |-> <<"I">>, value |-> <<"-", "j", " ", "T">>,
     text |-> <<"-", "A", " ", "I", " ", "-", "j", " ", "T">>],
     [kind |-> "append", name |-> <<"I">>, value |-> <<"-", "p", " ", "t">>,
     text |-> <<"-", "A", " ", "I", " ", " ", "-", "p", " ", "t">>],
     [kind |-> "other", name |-> <<>>, value |-> <<>>,
     text |-> <<"C", "O", "M", "M", "I", "T">>]}

\* words of the extra column of a rule line: name is the field a word is meant
\* for (the address, for a NAT destination), value what it gives the field
ExtraWords ==
    {[kind |-> "word", name |-> <<>>, value |-> <<>>,
     text |-> <<"t", "c", "p">>],
     [kind |-> "spt", name |-> <<>>, value |-> <<"4", "4", "3">>,
     text |-> <<"s", "p", "t", ":", "4", "4", "3">>],
     [kind |-> "dpt", name |-> <<>>, value |-> <<"1", "9", "0", "7", "0">>,
     text |-> <<"d", "p", "t", ":", "1", "9", "0", "7", "0">>],
     [kind |-> "dpt", name |-> <<>>, value |-> <<"5", "0", "0", "0", ":", "6", "0", "0", "0">>,
     text |-> <<"d", "p", "t", "s", ":", "5", "0", "0", "0", ":", "6", "0", "0", "0">>],
     [kind |-> "to", name |-> <<"1", "9", "2", ".", "1", "6", "8", ".", "1", "2", "7", ".", "7", "0">>, value |-> <<"9", "0", "0", "1">>,
     text |-> <<"t", "o", ":", "1", "9", "2", ".", "1", "6", "8", ".", "1", "2", "7", ".", "7", "0", ":", "9", "0", "0", "1">>],
     [kind |-> "to", name |-> <<"1", ".", "2", ".", "3", ".", "4">>, value |-> <<>>,
     text |-> <<"t", "o", ":", "1", ".", "2", ".", "3", ".", "4">>],
     [kind |-> "to", name |-> <<"5", ".", "6", ".", "7", ".", "8">>, value |-> <<>>,
     text |-> <<"t", "o", ":", "5", ".", "6", ".", "7", ".", "8", ":">>]}

\* tokens of the content of a rule line: recognized flags (name is the field),
\* a flag that is not recognized, plain words
ContentTokens ==
    {[kind |-> "flag", name |-> "protocol", value |-> <<>>,
     text |-> <<"-", "p">>],
     [kind |-> "flag", name |-> "source", value |-> <<>>,
     text |-> <<"-", "s">>],
     [kind |-> "flag", name |-> "destination", value |-> <<>>,
     text |-> <<"-", "d">>],
     [kind |-> "flag", name |-> "sport", value |-> <<>>,
     text |-> <<"-", "-", "s", "p", "o", "r", "t">>],
     [kind |-> "flag", name |-> "dport", value |-> <<>>,
     text |-> <<"-", "-", "d", "p", "o", "r", "t">>],
     [kind |-> "flag", name |-> "target", value |-> <<>>,
     text |-> <<"-", "j">>],
     [kind |-> "flag", name |-> "toDestination", value |-> <<>>,
     text |-> <<"-", "-", "t", "o", "-", "d", "e", "s", "t", "i", "n", "a", "t", "i", "o", "n">>],
     [kind |-> "unknown", name |-> "", value |-> <<>>,
     text |-> <<"-", "m">>],
     [kind |-> "word", name |-> "", value |-> <<>>,
     text |-> <<"t", "c", "p">>],
     [kind |-> "word", name |-> "", value |-> <<>>,
     text |-> <<"S", "Y", "N">>],
     [kind |-> "word", name |-> "", value |-> <<>>,
     text |-> <<"!">>]}

\* the sequences of at most n pieces of an alphabet
Docs(alphabet, n) == UNION {[1..k -> alphabet] : k \in 0..n}

\* the texts handed to the parsers
ParserInputs ==
    [family : {"listing"}, pieces : Docs(ListingLines, MaxListingLines)]
    \cup [family : {"dump"}, pieces : Docs(DumpLines, MaxDumpLines)]
    \cup [family : {"extra"}, pieces : Docs(ExtraWords, MaxExtraWords)]
    \cup [family : {"content"}, pieces : Docs(ContentTokens, MaxContentTokens)]

\* the texts of the pieces
TextsOf(pieces) == [i \in DOMAIN pieces |-> pieces[i].text]

\* the string the pieces make
InputText(in) ==
    IF in.family \in {"listing", "dump"} THEN JoinLines(TextsOf(in.pieces))
    ELSE JoinSpace(TextsOf(in.pieces))

ParseInit ==
    /\ connections = EmptyMap
    /\ clients = <<>>
    /\ ops = <<>>
    /\ wire = <<>>
    /\ opened = {}
    /\ closedSince = {}
    /\ input \in ParserInputs
    /\ output = NotParsed

\* the texts handed to the parser of a format: those of the format, and the
\* short ones of the other formats
GivenTo(family) ==
    IF input.family = family THEN TRUE ELSE Len(input.pieces) <= MaxForeignPieces

\* the parser returned value
Returned(parser, value) == [parser |-> parser, value |-> value]

\* parseIptablesOutput(output)
ParseListing ==
    /\ output = NotParsed
    /\ GivenTo("listing")
    /\ output' = Returned("parseIptablesOutput", parseIptablesOutput(InputText(input)))
    /\ UNCHANGED <<connections, clients, ops, wire, opened, closedSince, input>>

\* parseExtraFields(extraString)
ParseExtra ==
    /\ output = NotParsed
    /\ GivenTo("extra")
    /\ output' = Returned("parseExtraFields", parseExtraFields(InputText(input)))
    /\ UNCHANGED <<connections, clients, ops, wire, opened, closedSince, input>>

\* parseIptablesSave(output)
ParseDump ==
    /\ output = NotParsed
    /\ GivenTo("dump")
    /\ output' = Returned("parseIptablesSave", parseIptablesSave(InputText(input)))
    /\ UNCHANGED <<connections, clients, ops, wire, opened, closedSince, input>>

\* parseRuleContent(content)
ParseContent ==
    /\ output = NotParsed
    /\ GivenTo("content")
    /\ output' = Returned("parseRuleContent", parseRuleContent(InputText(input)))
    /\ UNCHANGED <<connections, clients, ops, wire, opened, closedSince, input>>

ParseNext == ParseListing \/ ParseExtra \/ ParseDump \/ ParseContent

ParseSpec == ParseInit /\ [][ParseNext]_vars

(***************************************************************************)
(* Properties of the registry, under Spec.                                 *)
(***************************************************************************)
\* the connections of a session that are established and not ended
LiveOf(s) == {c \in DOMAIN clients : clients[c].session = s /\ Live(c)}

\* C1: after any interleaving of connect and disconnect, each session key has
\* at most one live connection (established and not yet ended).
C1_AtMostOneLiveConnection == \A s \in Sessions : Cardinality(LiveOf(s)) <= 1

\* C2: isConnected(session) is false before a connect of the session has
\* resolved, and false after disconnect(session) as long as connect(session) has
\* not been called since, also when the disconnect came while a connect was
\* pending.
C2_ClosedUntilOpened ==
    \A s \in Sessions :
        /\ s \notin opened => ~isConnected(s)
        /\ s \in closedSince => ~isConnected(s)

\* C3: a connect that fails with a transport error leaves the registry as it
\* was (an earlier entry of the session is kept), its connection is never the
\* session's entry, and its caller receives ConnectionError with the
\* transport's message.
C3_FailedConnectRegistersNothing ==
    /\ [](\A s \in DOMAIN connections :
              clients[connections[s]].promise.type # "ConnectionError")
    /\ [][\A c \in DOMAIN clients :
              (clients[c].promise = Pending /\ clients'[c].state = "failed")
                  => /\ connections' = connections
                     /\ clients'[c].promise = ConnectionError(clients'[c].lastError)
                     /\ clients'[c].lastError \in TransportMessages]_vars

\* a connect of a session failed with ConnectionError while an earlier
\* connection of the session stays registered
C3_Witness ==
    \E c \in DOMAIN clients :
        /\ clients[c].promise.type = "ConnectionError"
        /\ isConnected(clients[c].session)
        /\ connections[clients[c].session] < c

\* C4: whenever isConnected(session) is true, the session's connection has
\* been established and has neither been ended nor failed since.
C4_ConnectedMeansActive == \A s \in Sessions : isConnected(s) => Live(connections[s])

\* C5: connect fails with KeyReadError exactly when reading the private-key
\* file fails, and then no network connection attempt was started and the
\* connection is not registered.
C5_KeyReadErrorIffReadFails ==
    \A c \in DOMAIN clients :
        /\ clients[c].promise.type = "KeyReadError" <=> clients[c].keyRead = "failed"
        /\ clients[c].promise.type = "KeyReadError"
               => /\ ~clients[c].dialled
                  /\ \A s \in DOMAIN connections : connections[s] # c

(***************************************************************************)
(* Properties of executeCommand, under RunSpec.                            *)
(***************************************************************************)
\* the executeCommand calls that have settled
AllRuns == UNION {{ops[o].runs[i] : i \in DOMAIN ops[o].runs} : o \in DOMAIN ops}

\* the calls whose command is on the wire at position i
SendersOf(i) ==
    {o \in DOMAIN ops : ops[o].pc \in {"exec", "stream"} /\ ops[o].wireIdx = i}

\* C6: executeCommand on a session that has no registry entry (never opened,
\* or closed) fails with NoActiveConnectionError and sends no command: every
\* command on the wire was handed to the connection registered for its session.
C6_NoEntryNoCommand ==
    /\ \A r \in AllRuns :
           ~r.hadEntry => r.outcome = NoActiveConnectionError /\ r.wireIdx = 0
    /\ \A i \in DOMAIN wire :
           /\ wire[i].client \in DOMAIN clients
           /\ \/ SendersOf(i) # {}
              \/ \E r \in AllRuns : r.wireIdx = i /\ r.hadEntry /\ r.client = wire[i].client

\* executeCommand was called on a session that had been opened and closed
C6_Witness ==
    /\ ServiceSession \in opened \cap closedSince
    /\ \E r \in AllRuns : ~r.hadEntry /\ r.outcome = NoActiveConnectionError

\* C7, as stated: every completion of executeCommand is the command's stdout,
\* NoActiveConnectionError, or CommandExecutionError with exit code and stderr.
C7_OneOfThreeOutcomes ==
    \A r \in AllRuns :
        r.outcome.type \in {"stdout", "NoActiveConnectionError", "CommandExecutionError"}

\* C7, amended: every completion of executeCommand is the command's stdout,
\* NoActiveConnectionError, CommandExecutionError with the exit code and stderr
\* of a process that ran, or, exactly when the channel could not be opened on a
\* registered connection, an error that carries only the transport's message.
C7_OneOfFourOutcomes ==
    \A r \in AllRuns :
        /\ r.outcome.type \in {"stdout", "NoActiveConnectionError", "CommandExecutionError",
                                "ExecutionError", "TransportError"}
        /\ r.outcome.type = "NoActiveConnectionError" <=> ~r.hadEntry
        /\ r.outcome.type \in {"ExecutionError", "TransportError"}
               <=> (r.hadEntry /\ ~r.streamed)
        /\ r.outcome.type \in {"ExecutionError", "TransportError"}
               => /\ r.outcome.message = r.message
                  /\ r.message \in TransportMessages \cup {NotConnectedMessage}
        /\ r.outcome.type \in {"stdout", "CommandExecutionError"} <=> r.streamed
        /\ r.outcome.type = "CommandExecutionError"
               => /\ r.outcome.exitCode = r.exitCode
                  /\ r.outcome.stderr = Concat(r.errChunks)

\* the channel could not be opened on a registered connection
C7_Witness ==
    \E r \in AllRuns :
        r.hadEntry /\ ~r.streamed /\ r.outcome = ExecutionError("ECONNRESET")

\* C8: when the remote process signals completion, executeCommand resolves
\* with the stdout chunks concatenated in arrival order if and only if the exit
\* code is 0; otherwise it fails with that exit code and the stderr chunks
\* concatenated, and no stdout.
C8_StdoutIffExitZero ==
    \A r \in AllRuns :
        r.streamed
            => /\ r.outcome.type = "stdout" <=> r.exitCode = 0
               /\ r.exitCode = 0 => r.outcome = Stdout(Concat(r.outChunks))
               /\ r.exitCode # 0
                      => r.outcome = CommandExecutionError(r.exitCode, Concat(r.errChunks))

\* a process wrote two different chunks to stdout and exited with 0
C8_Witness ==
    \E r \in AllRuns :
        /\ r.streamed /\ r.exitCode = 0
        /\ Len(r.outChunks) = 2 /\ r.outChunks[1] # r.outChunks[2]
        /\ r.outcome.type = "stdout"

(***************************************************************************)
(* Properties of the service methods, under ServiceSpec.                   *)
(***************************************************************************)
\* the calls of kind that have returned or thrown
DoneOps(kinds) == {o \in DOMAIN ops : ops[o].kind \in kinds /\ ops[o].pc = "done"}

\* C9: a listAllRules that completes returns a result with exactly the four
\* keys filter, nat, raw and mangle, after one command per table; a table
\* whose command failed maps to the empty list and every other table to the
\* parse of its own output, whatever happened to the other commands.
C9_ListAllRulesIsolatesFailures ==
    \A o \in DoneOps({"listAllRules"}) :
        /\ ops[o].result.type = "ok"
        /\ DOMAIN ops[o].result.value = {TableNames[i] : i \in DOMAIN TableNames}
        /\ Len(ops[o].runs) = Len(TableNames)
        /\ \A i \in DOMAIN TableNames :
               /\ ops[o].runs[i].command = ListCommand(TableNames[i])
               /\ ops[o].result.value[TableNames[i]] =
                      IF ops[o].runs[i].outcome.type = "stdout"
                      THEN parseIptablesOutput(Concat(ops[o].runs[i].outChunks))
                      ELSE <<>>

\* the command of nat failed, the three other tables have rules
C9_Witness ==
    \E o \in DoneOps({"listAllRules"}) :
        /\ ops[o].runs[2].outcome.type = "CommandExecutionError"
        /\ ops[o].result.value[TableNames[2]] = <<>>
        /\ \A i \in {1, 3, 4} :
               /\ ops[o].result.value[TableNames[i]] # <<>>
               /\ ops[o].result.value[TableNames[i]][1].rules # <<>>

\* the methods that send one command and return what they make of its output
SingleKinds == Kinds \ {"executeCommand", "listAllRules"}

\* C10: listRules, getIptablesSave, addRule, deleteRule, saveRules and
\* restoreRules send one command; each throws exactly the error of its
\* executeCommand, and returns parsed data or a success only when that command
\* completed with exit code 0.
C10_SingleCommandErrorsPropagate ==
    \A o \in DoneOps(SingleKinds) :
        LET op == ops[o]
            run == op.runs[1]
        IN  /\ Len(op.runs) = 1
            /\ run.command = CommandOf(op)
            /\ run.outcome.type # "stdout" => op.result = run.outcome
            /\ op.result.type = "ok" <=> run.outcome.type = "stdout"
            /\ op.result.type = "ok" => run.streamed /\ run.exitCode = 0
            /\ (op.result.type = "ok" /\ op.kind = "listRules")
                   => op.result.value = parseIptablesOutput(Concat(run.outChunks))
            /\ (op.result.type = "ok" /\ op.kind = "getIptablesSave")
                   => op.result.value = parseIptablesSave(Concat(run.outChunks))

\* listRules threw the error of a command that exited with a non-zero code
C10_Witness ==
    \E o \in DoneOps({"listRules"}) :
        /\ ops[o].result.type = "CommandExecutionError"
        /\ ops[o].result = ops[o].runs[1].outcome
        /\ ops[o].runs[1].exitCode = 1

(***************************************************************************)
(* Properties of the commands sent, under ServiceSpec.                     *)
(***************************************************************************)
\* the command text each method must send, written out for the arguments
\* the calls of ServiceSpec pass (rule "-A I -j T", chain "I", number "1")
C11_Template(kind, table) ==
    CASE kind = "listRules" /\ table = TableNames[1] ->
             <<"s", "u", "d", "o", " ", "i", "p", "t", "a", "b", "l", "e", "s", " ", "-", "t", " ", "f", "i", "l", "t", "e", "r", " ", "-", "L", " ", "-", "n", " ", "-", "v", " ", "-", "-", "l", "i", "n", "e", "-", "n", "u", "m", "b", "e", "r", "s">>
      [] kind = "listRules" /\ table = TableNames[2] ->
             <<"s", "u", "d", "o", " ", "i", "p", "t", "a", "b", "l", "e", "s", " ", "-", "t", " ", "n", "a", "t", " ", "-", "L", " ", "-", "n", " ", "-", "v", " ", "-", "-", "l", "i", "n", "e", "-", "n", "u", "m", "b", "e", "r", "s">>
      [] kind = "getIptablesSave" -> <<"s", "u", "d", "o", " ", "i", "p", "t", "a", "b", "l", "e", "s", "-", "s", "a", "v", "e">>
      [] kind = "addRule" /\ table = TableNames[1] -> <<"s", "u", "d", "o", " ", "i", "p", "t", "a", "b", "l", "e", "s", " ", "-", "A", " ", "I", " ", "-", "j", " ", "T">>
      [] kind = "addRule" /\ table = TableNames[2] -> <<"s", "u", "d", "o", " ", "i", "p", "t", "a", "b", "l", "e", "s", " ", "-", "t", " ", "n", "a", "t", " ", "-", "A", " ", "I", " ", "-", "j", " ", "T">>
      [] kind = "deleteRule" /\ table = TableNames[1] -> <<"s", "u", "d", "o", " ", "i", "p", "t", "a", "b", "l", "e", "s", " ", "-", "D", " ", "I", " ", "1">>
      [] kind = "deleteRule" /\ table = TableNames[2] -> <<"s", "u", "d", "o", " ", "i", "p", "t", "a", "b", "l", "e", "s", " ", "-", "t", " ", "n", "a", "t", " ", "-", "D", " ", "I", " ", "1">>
      [] kind = "saveRules" -> <<"s", "u", "d", "o", " ", "i", "p", "t", "a", "b", "l", "e", "s", "-", "s", "a", "v", "e", " ", ">", " ", "/", "e", "t", "c", "/", "i", "p", "t", "a", "b", "l", "e", "s", "/", "r", "u", "l", "e", "s", ".", "v", "4">>
      [] kind = "restoreRules" -> <<"s", "u", "d", "o", " ", "i", "p", "t", "a", "b", "l", "e", "s", "-", "r", "e", "s", "t", "o", "r", "e", " ", "<", " ", "/", "e", "t", "c", "/", "i", "p", "t", "a", "b", "l", "e", "s", "/", "r", "u", "l", "e", "s", ".", "v", "4">>

\* the listing commands of the four tables, in the order listAllRules sends them
C11_ListTemplates ==
    <<<<"s", "u", "d", "o", " ", "i", "p", "t", "a", "b", "l", "e", "s", " ", "-", "t", " ", "f", "i", "l", "t", "e", "r", " ", "-", "L", " ", "-", "n", " ", "-", "v", " ", "-", "-", "l", "i", "n", "e", "-", "n", "u", "m", "b", "e", "r", "s">>,
      <<"s", "u", "d", "o", " ", "i", "p", "t", "a", "b", "l", "e", "s", " ", "-", "t", " ", "n", "a", "t", " ", "-", "L", " ", "-", "n", " ", "-", "v", " ", "-", "-", "l", "i", "n", "e", "-", "n", "u", "m", "b", "e", "r", "s">>,
      <<"s", "u", "d", "o", " ", "i", "p", "t", "a", "b", "l", "e", "s", " ", "-", "t", " ", "r", "a", "w", " ", "-", "L", " ", "-", "n", " ", "-", "v", " ", "-", "-", "l", "i", "n", "e", "-", "n", "u", "m", "b", "e", "r", "s">>,
      <<"s", "u", "d", "o", " ", "i", "p", "t", "a", "b", "l", "e", "s", " ", "-", "t", " ", "m", "a", "n", "g", "l", "e", " ", "-", "L", " ", "-", "n", " ", "-", "v", " ", "-", "-", "l", "i", "n", "e", "-", "n", "u", "m", "b", "e", "r", "s">>>>

\* C11: addRule and deleteRule send exactly one command, with the `-t <table> `
\* qualifier if and only if the table is not filter; listing, dump, save and
\* restore send exactly their literal templates, character for character.
C11_CommandsAreTheTemplates ==
    \A o \in DOMAIN ops :
        LET op == ops[o] IN
        IF op.kind = "listAllRules"
        THEN /\ Len(wire) <= Len(TableNames)
             /\ \A i \in DOMAIN op.runs :
                    op.runs[i].wireIdx > 0
                        => wire[op.runs[i].wireIdx].command = C11_ListTemplates[i]
             /\ op.pc \in {"exec", "stream"}
                    => wire[op.wireIdx].command = C11_ListTemplates[op.step]
        ELSE /\ Len(wire) <= 1
             /\ \A i \in DOMAIN wire : wire[i].command = C11_Template(op.kind, op.table)
             /\ (op.pc = "done" /\ op.result.type = "ok") => Len(wire) = 1

\* deleteRule on the table nat has sent its command and returned
C11_Witness ==
    \E o \in DoneOps({"deleteRule"}) :
        /\ ops[o].table = TableNames[2]
        /\ ops[o].result.type = "ok"
        /\ Len(wire) = 1

(***************************************************************************)
(* Properties of the parsers, under ParseSpec.  What a text must parse to  *)
(* is read off the pieces it was made of, not off the text.                *)
(***************************************************************************)
\* the positions of the pieces of the given kinds, in order
Indices(pieces, kinds) ==
    SelectSeq([i \in 1..Len(pieces) |-> i], LAMBDA i : pieces[i].kind \in kinds)

\* the end (exclusive) of the section that the piece at position h opens: the
\* position of the next piece of one of the kinds breaks, or past the end
SectionEnd(pieces, h, breaks) ==
    Least({j \in (h + 1)..(Len(pieces) + 1) :
              j > Len(pieces) \/ pieces[j].kind \in breaks})

\* the positions of the pieces of the given kinds in the section opened at h
InSection(pieces, h, breaks, kinds) ==
    SelectSeq([i \in 1..Len(pieces) |-> i],
              LAMBDA i : /\ i > h /\ i < SectionEnd(pieces, h, breaks)
                         /\ pieces[i].kind \in kinds)

\* parseIptablesOutput has returned for a listing
ListingParsed == output.parser = "parseIptablesOutput" /\ input.family = "listing"

\* C12: for a listing with N well-formed chain headers the parser returns
\* exactly N chains, named after the headers in their order, whatever lies
\* between; a rule line of fewer than 8 columns adds no chain and no rule.
C12_OneChainPerHeader ==
    ListingParsed =>
        LET headers == Indices(input.pieces, {"header"}) IN
        /\ Len(output.value) = Len(headers)
        /\ \A k \in DOMAIN headers :
               /\ output.value[k].chain = input.pieces[headers[k]].name
               /\ Len(output.value[k].rules) =
                      Len(InSection(input.pieces, headers[k], {"header", "badheader"},
                                    {"rule"}))

\* two headers with a rule line of 7 columns between them
C12_Witness ==
    /\ ListingParsed
    /\ Len(input.pieces) = 3
    /\ input.pieces[1].kind = "header" /\ input.pieces[2].kind = "short"
    /\ input.pieces[3].kind = "header"
    /\ Len(output.value) = 2

\* the fields of the values the parsers build
ExtraFieldNames == {"sourcePort", "destPort", "toDestIP", "toDestPort", "toDestination"}
ListingRuleFieldNames ==
    {"num", "target", "prot", "opt", "source", "destination", "extra"} \cup ExtraFieldNames
ParsedFieldNames ==
    {"protocol", "source", "destination", "sport", "dport", "target", "toDestination", "other"}

\* value is what the parser called parser returns when it returns normally
WellFormed(parser, value) ==
    CASE parser = "parseIptablesOutput" ->
           \A k \in DOMAIN value :
              /\ DOMAIN value[k] = {"chain", "rules"}
              /\ \A r \in DOMAIN value[k].rules :
                     DOMAIN value[k].rules[r] = ListingRuleFieldNames
      [] parser = "parseExtraFields" -> DOMAIN value = ExtraFieldNames
      [] parser = "parseIptablesSave" ->
           \A t \in DOMAIN value : \A c \in DOMAIN value[t] :
              /\ DOMAIN value[t][c] = {"chain", "policy", "rules"}
              /\ \A r \in DOMAIN value[t][c].rules :
                     /\ DOMAIN value[t][c].rules[r] = {"raw", "content", "parsed"}
                     /\ DOMAIN value[t][c].rules[r].parsed = ParsedFieldNames
      [] parser = "parseRuleContent" -> DOMAIN value = ParsedFieldNames

\* C13: on every input text it is given, of its own format or of another
\* parser's, each of the four parsers returns a value of its result type; on
\* the empty text the listing parser returns the empty list and the dump
\* parser the empty map.
C13_ParsersAlwaysReturn ==
    /\ output # NotParsed =>
           /\ WellFormed(output.parser, output.value)
           /\ (input.family # "none" /\ input.pieces = <<>>) =>
                  /\ output.parser = "parseIptablesOutput" => output.value = <<>>
                  /\ output.parser = "parseIptablesSave" => DOMAIN output.value = {}

\* the dump parser has returned for a listing that has a chain with a rule
C13_Witness ==
    /\ output.parser = "parseIptablesSave" /\ input.family = "listing"
    /\ Len(input.pieces) = 2
    /\ input.pieces[1].kind = "header" /\ input.pieces[2].kind = "rule"
    /\ DOMAIN output.value = {}

\* parseIptablesSave has returned for a dump
DumpParsed == output.parser = "parseIptablesSave" /\ input.family = "dump"

\* the position of the last table header called name (0 when there is none)
LastHeader(pieces, name) ==
    Greatest({0} \cup {i \in DOMAIN pieces :
                          pieces[i].kind = "table" /\ pieces[i].name = name})

\* the chain declared at position c, in the section opened at h, is the first
\* of its name there
FirstOfName(pieces, h, c) ==
    \A i \in (h + 1)..(c - 1) :
        ~(pieces[i].kind = "chain" /\ pieces[i].name = pieces[c].name)

\* the positions of the rule lines that belong to the chain declared at
\* position c of the section opened at h
RuleLinesOf(pieces, h, c) ==
    IF FirstOfName(pieces, h, c)
    THEN SelectSeq(InSection(pieces, h, {"table"}, {"append"}),
                   LAMBDA i : i > c /\ pieces[i].name = pieces[c].name)
    ELSE <<>>

\* the names of the pieces at the positions, and so on
NamesAt(pieces, positions) == [k \in DOMAIN positions |-> pieces[positions[k]].name]
TextsAt(pieces, positions) == [k \in DOMAIN positions |-> pieces[positions[k]].text]
ChainNames(chains) == [k \in DOMAIN chains |-> chains[k].chain]
RuleNums(rules) == [k \in DOMAIN rules |-> rules[k].num]
RuleRaws(rules) == [k \in DOMAIN rules |-> rules[k].raw]

\* C14: chains come out in the order of the lines that declare them, the
\* rules of a chain in the order of their rule lines, each line once: in a
\* listing the chains are the headers and the rules of a chain the rule lines
\* of its section; in a dump the chains of a table are the `:` lines of its
\* section and the rules of a chain the `-A` lines that name it.
C14_InputOrderKept ==
    /\ ListingParsed =>
           LET headers == Indices(input.pieces, {"header"}) IN
           /\ ChainNames(output.value) = NamesAt(input.pieces, headers)
           /\ \A k \in DOMAIN output.value :
                  RuleNums(output.value[k].rules) =
                      NamesAt(input.pieces,
                          InSection(input.pieces, headers[k], {"header", "badheader"},
                                    {"rule"}))
    /\ DumpParsed =>
           \A t \in DOMAIN output.value :
               LET h == LastHeader(input.pieces, t)
                   decls == InSection(input.pieces, h, {"table"}, {"chain"})
               IN
               /\ h > 0
               /\ ChainNames(output.value[t]) = NamesAt(input.pieces, decls)
               /\ \A k \in DOMAIN output.value[t] :
                      RuleRaws(output.value[t][k].rules) =
                          TextsAt(input.pieces, RuleLinesOf(input.pieces, h, decls[k]))

\* a dump of one table with one chain and two different rule lines of it
C14_Witness ==
    /\ DumpParsed
    /\ Len(input.pieces) = 4
    /\ input.pieces[1].kind = "table"
    /\ input.pieces[2].kind = "chain" /\ input.pieces[2].name = <<"I">>
    /\ input.pieces[3].kind = "append" /\ input.pieces[4].kind = "append"
    /\ input.pieces[3] # input.pieces[4]
    /\ input.pieces[1].name \in DOMAIN output.value
    /\ Len(output.value[input.pieces[1].name][1].rules) = 2

\* the number a text of decimal digits writes
DigitValue(c) ==
    CHOOSE n \in 0..9 : <<"0", "1", "2", "3", "4", "5", "6", "7", "8", "9">>[n + 1] = c
RECURSIVE NumValue(_)
NumValue(text) ==
    IF text = <<>> THEN 0
    ELSE 10 * NumValue(SubSeq(text, 1, Len(text) - 1)) + DigitValue(text[Len(text)])

\* C15: in every chain the listing parser returns, whatever the input, the
\* line numbers of the rules are pairwise distinct and each is at least 1.
C15_RuleNumbersDistinct ==
    ListingParsed =>
        \A k \in DOMAIN output.value :
            LET rules == output.value[k].rules IN
            /\ \A a, b \in DOMAIN rules : a # b => rules[a].num # rules[b].num
            /\ \A a \in DOMAIN rules : NumValue(rules[a].num) >= 1

\* the numbers in the sequence nums are pairwise distinct and each at least 1
DistinctFromOne(nums) ==
    /\ \A a, b \in DOMAIN nums : a # b => nums[a] # nums[b]
    /\ \A a \in DOMAIN nums : NumValue(nums[a]) >= 1

\* C15 (amended): in every chain the listing parser returns, for an input
\* whose rule lines of that chain carry pairwise distinct line numbers of at
\* least 1, the line numbers of the rules are pairwise distinct and each is
\* at least 1.
C15_RuleNumbersDistinctAsInInput ==
    ListingParsed =>
        LET headers == Indices(input.pieces, {"header"}) IN
        \A k \in DOMAIN output.value :
            DistinctFromOne(NamesAt(input.pieces,
                InSection(input.pieces, headers[k], {"header", "badheader"}, {"rule"})))
            => DistinctFromOne(RuleNums(output.value[k].rules))

\* a chain with the rule lines 1 and 2
C15_Witness ==
    /\ ListingParsed
    /\ Len(input.pieces) = 3
    /\ input.pieces[1].kind = "header"
    /\ input.pieces[2].name = <<"1">> /\ input.pieces[3].name = <<"2">>
    /\ RuleNums(output.value[1].rules) = << <<"1">>, <<"2">> >>

\* filter, nat, raw, mangle
KnownTables == {TableNames[i] : i \in DOMAIN TableNames}

\* C16: every table name the core produces or uses is one of filter, nat,
\* raw, mangle: the keys of the map the dump parser returns, and the table of
\* every listRules, addRule and deleteRule.
C16_TableNamesAreKnown ==
    /\ DumpParsed => DOMAIN output.value \subseteq KnownTables
    /\ \A o \in DOMAIN ops :
           ops[o].kind \in {"listRules", "addRule", "deleteRule"}
           => ops[o].table \in KnownTables

ChainPolicies(chains) == [k \in DOMAIN chains |-> chains[k].policy]
ValuesAt(pieces, positions) == [k \in DOMAIN positions |-> pieces[positions[k]].value]

\* the table called name has the chains declared in the section opened at h
HasSection(tables, name, pieces, h) ==
    /\ name \in DOMAIN tables
    /\ ChainNames(tables[name]) =
           NamesAt(pieces, InSection(pieces, h, {"table"}, {"chain"}))
    /\ ChainPolicies(tables[name]) =
           ValuesAt(pieces, InSection(pieces, h, {"table"}, {"chain"}))

\* C17: for every `*name` header line of a dump the result has the key name,
\* and its value is the list of the chains declared by `:` lines between that
\* header and the next header or the end of the input, in their order; the
\* last section is there whether or not a COMMIT line follows it.
C17_EveryHeaderHasItsSection ==
    DumpParsed =>
        \A h \in DOMAIN input.pieces :
            input.pieces[h].kind = "table"
            => HasSection(output.value, input.pieces[h].name, input.pieces, h)

\* C17 (amended): for every `*name` header line whose name is not empty and
\* not __proto__ the result has the key name, and its value is the list of the
\* chains declared by `:` lines between the last header of that name and the
\* next header or the end of the input, in their order; the last section is
\* there whether or not a COMMIT line follows it.
C17_LastHeaderOfNameHasItsSection ==
    DumpParsed =>
        \A h \in DOMAIN input.pieces :
            (/\ input.pieces[h].kind = "table"
             /\ input.pieces[h].name # <<>>
             /\ input.pieces[h].name # ProtoName)
            => HasSection(output.value, input.pieces[h].name, input.pieces,
                          LastHeader(input.pieces, input.pieces[h].name))

\* two sections of one name, the first with a chain, and no COMMIT at the end
C17_Witness ==
    /\ DumpParsed
    /\ Len(input.pieces) = 4
    /\ input.pieces[1].kind = "table" /\ input.pieces[1].name # <<>>
    /\ input.pieces[1].name # ProtoName
    /\ input.pieces[2].kind = "chain"
    /\ input.pieces[3] = input.pieces[1]
    /\ input.pieces[4].kind = "chain" /\ input.pieces[4] # input.pieces[2]
    /\ ChainNames(output.value[input.pieces[1].name]) = <<input.pieces[4].name>>

\* the chain called name is declared in the section opened at h before position j
DeclaredBefore(pieces, h, j, name) ==
    \E c \in (h + 1)..(j - 1) : pieces[c].kind = "chain" /\ pieces[c].name = name

\* the positions of the rule lines of the section opened at h whose chain is
\* declared before them in that section
KeptRuleLines(pieces, h) ==
    SelectSeq(InSection(pieces, h, {"table"}, {"append"}),
              LAMBDA j : DeclaredBefore(pieces, h, j, pieces[j].name))

\* the number of rules of all the chains
RECURSIVE RuleCount(_)
RuleCount(chains) ==
    IF chains = <<>> THEN 0
    ELSE Len(chains[1].rules) + RuleCount(Tail(chains))

\* C18: in a dump a `-A name rest` line adds a rule to the chain called name
\* only if a `:name policy` line declared the chain earlier in the same table
\* section; any other `-A` line adds no rule to any chain of the table, also
\* when the chain is declared in another section.
C18_RuleOnlyOnDeclaredChain ==
    DumpParsed =>
        \A t \in DOMAIN output.value :
            LET h == LastHeader(input.pieces, t)
                kept == KeptRuleLines(input.pieces, h)
            IN
            /\ RuleCount(output.value[t]) = Len(kept)
            /\ \A k \in DOMAIN output.value[t] :
                   \A r \in DOMAIN output.value[t][k].rules :
                       \E j \in DOMAIN kept :
                           /\ input.pieces[kept[j]].text = output.value[t][k].rules[r].raw
                           /\ input.pieces[kept[j]].name = output.value[t][k].chain
                           /\ input.pieces[kept[j]].value =
                                  output.value[t][k].rules[r].content

\* a chain declared in one section and a rule line for it in the next one
C18_Witness ==
    /\ DumpParsed
    /\ Len(input.pieces) = 4
    /\ input.pieces[1].kind = "table" /\ input.pieces[3].kind = "table"
    /\ input.pieces[1].name # input.pieces[3].name
    /\ input.pieces[2].kind = "chain" /\ input.pieces[4].kind = "append"
    /\ input.pieces[2].name = input.pieces[4].name
    /\ DOMAIN output.value = {input.pieces[1].name, input.pieces[3].name}
    /\ output.value[input.pieces[3].name] = <<>>
    /\ RuleCount(output.value[input.pieces[1].name]) = 0

\* parseExtraFields has returned for an extra column
ExtraParsed == output.parser = "parseExtraFields" /\ input.family = "extra"

\* the position of the first piece of the kind, 0 when there is none
FirstOf(pieces, kind) ==
    IF \E i \in DOMAIN pieces : pieces[i].kind = kind
    THEN Least({i \in DOMAIN pieces : pieces[i].kind = kind})
    ELSE 0

\* the value of the piece at position p as a field, null when p is 0
PortField(pieces, p) == IF p = 0 THEN Null ELSE Str(pieces[p].value)

\* the three NAT fields the piece at position p gives, null when p is 0
NatFields(pieces, p) ==
    IF p = 0 THEN [toDestIP |-> Null, toDestPort |-> Null, toDestination |-> Null]
    ELSE IF pieces[p].value = <<>>
    THEN [toDestIP |-> Str(pieces[p].name), toDestPort |-> Null,
          toDestination |-> Str(pieces[p].name)]
    ELSE [toDestIP |-> Str(pieces[p].name), toDestPort |-> Str(pieces[p].value),
          toDestination |-> Str(pieces[p].name \o <<":">> \o pieces[p].value)]

\* C19: each of the three patterns of the extra column sets its own fields
\* whatever the other words are: spt:<digits> the source port, dpt:<digits>
\* the destination port and dpts:<a>:<b> the range a:b as written,
\* to:<ipv4>[:<digits>] the NAT fields; a pattern that does not occur leaves
\* its fields unset, and the empty string leaves all five unset.
C19_PatternsAreIndependent ==
    ExtraParsed =>
        /\ output.value.sourcePort = PortField(input.pieces, FirstOf(input.pieces, "spt"))
        /\ output.value.destPort = PortField(input.pieces, FirstOf(input.pieces, "dpt"))
        /\ LET nat == NatFields(input.pieces, FirstOf(input.pieces, "to")) IN
           /\ output.value.toDestIP = nat.toDestIP
           /\ output.value.toDestPort = nat.toDestPort
           /\ output.value.toDestination = nat.toDestination

\* a port range after a NAT destination without port, and no source port
C19_Witness ==
    /\ ExtraParsed
    /\ Len(input.pieces) = 3
    /\ input.pieces[1].kind = "word"
    /\ input.pieces[2].kind = "to" /\ input.pieces[2].value = <<>>
    /\ input.pieces[3].kind = "dpt" /\ Len(input.pieces[3].value) = 9
    /\ output.value.sourcePort = Null
    /\ output.value.destPort = Str(input.pieces[3].value)
    /\ output.value.toDestPort = Null

\* parseRuleContent has returned for the content of a rule line
ContentParsed == output.parser = "parseRuleContent" /\ input.family = "content"

\* the fields the recognized flags set
FlagFields ==
    {"protocol", "source", "destination", "sport", "dport", "target", "toDestination"}

\* how many tokens the token at position i takes: a recognized flag itself
\* and its value, an unrecognized flag itself and the word that follows it
TokensTaken(pieces, i) ==
    IF pieces[i].kind = "flag" THEN 2
    ELSE IF pieces[i].kind = "unknown" /\ i < Len(pieces) /\ pieces[i + 1].kind = "word"
    THEN 2
    ELSE 1

\* the positions from i on of the tokens that are read as options, not taken
\* as the value of the token before them
RECURSIVE ReadFrom(_, _)
ReadFrom(pieces, i) ==
    IF i > Len(pieces) THEN {}
    ELSE {i} \cup ReadFrom(pieces, i + TokensTaken(pieces, i))

\* the positions where the flag of field is read
Occurrences(pieces, field) ==
    {i \in ReadFrom(pieces, 1) : pieces[i].kind = "flag" /\ pieces[i].name = field}

\* the token after position i, as tokens[++i] reads it
ValueAfter(pieces, i) == IF i < Len(pieces) THEN Str(pieces[i + 1].text) ELSE Undefined

\* C20: each recognized flag takes the one token after it as its value,
\* whatever the token is, and that token is not read as a flag; of several
\* occurrences of a flag the last gives the value; the field of a flag that
\* does not occur stays unset.
C20_FlagTakesNextToken ==
    ContentParsed =>
        \A field \in FlagFields :
            output.value[field] =
                IF Occurrences(input.pieces, field) = {} THEN Null
                ELSE ValueAfter(input.pieces, Greatest(Occurrences(input.pieces, field)))

\* -p -j -p tcp: the first -p takes -j, which sets no target, and the second
\* -p gives the protocol
C20_Witness ==
    /\ ContentParsed
    /\ Len(input.pieces) = 4
    /\ input.pieces[1].name = "protocol" /\ input.pieces[2].name = "target"
    /\ input.pieces[3].name = "protocol" /\ input.pieces[4].kind = "word"
    /\ output.value.protocol = Str(input.pieces[4].text)
    /\ output.value.target = Null

(***************************************************************************)
(* Properties of two sessions side by side, under PairSpec.                *)
(***************************************************************************)
\* what belongs to the session s: its registry entry, the connections made
\* for it, and the calls made on it with where they stand and their outcomes
ViewOf(conns, cls, calls, s) ==
    [entry |-> IF s \in DOMAIN conns THEN conns[s] ELSE 0,
     clients |-> [c \in {c \in DOMAIN cls : cls[c].session = s} |-> cls[c]],
     ops |-> [o \in {o \in DOMAIN calls : calls[o].session = s} |-> calls[o]]]

\* the step is one of open, close or run on the session s: the call, or a
\* handler of one of its connections or channels
StepOn(s) ==
    \/ connect(s, TRUE, TRUE)
    \/ disconnect(s)
    \/ Call("executeCommand", s, TableNames[1])
    \/ \E c \in DOMAIN clients :
           clients[c].session = s /\ (ConnReady(c) \/ ConnError(c, "ECONNREFUSED"))
    \/ \E o \in DOMAIN ops :
           /\ ops[o].session = s
           /\ (ExecStream(o) \/ StreamClose(o, 0))

\* C21: open, close and run on a session A, and the handlers of A's
\* connections and channels, leave the registry entry of every other session
\* B, B's connections and the calls on B with their outcomes as they are; and a
\* run on B is handed to a connection of B only.
C21_SessionsAreIndependent ==
    /\ [][\A A \in Sessions : StepOn(A) =>
              \A B \in Sessions \ {A} :
                  ViewOf(connections', clients', ops', B)
                      = ViewOf(connections, clients, ops, B)]_vars
    /\ [](\A o \in DOMAIN ops :
              /\ ops[o].client # 0 => clients[ops[o].client].session = ops[o].session
              /\ \A r \in DOMAIN ops[o].runs :
                     ops[o].runs[r].client # 0
                         => clients[ops[o].runs[r].client].session = ops[o].session)

\* s1 was opened and closed, while s2 is still registered and a run on it
\* has resolved
C21_Witness ==
    /\ "s1" \in opened /\ "s1" \in closedSince
    /\ DOMAIN connections = {"s2"}
    /\ \E o \in DOMAIN ops :
           /\ ops[o].session = "s2" /\ ops[o].pc = "done"
           /\ ops[o].result.type = "stdout"

(***************************************************************************)
(* Properties of the settlement of executeCommand, under RunLiveSpec.      *)
(***************************************************************************)
\* the call number o waits for its channel
Waiting(o) == o \in DOMAIN ops /\ ops[o].pc \in {"exec", "stream"}

\* the call number o has settled
HasSettled(o) == o \in DOMAIN ops /\ ops[o].pc = "done"

\* C22: a run settles once: a settled call never changes.  A call that waits
\* for its channel is settled by no step but the exec callback's error and
\* the close of the channel with its exit code: no timer, no disconnect and
\* no loss of the connection settles it.  When the transport calls back and
\* every opened channel is closed in the end, every run settles in the end.
C22_SettlesOnceOnCompletion ==
    /\ [][\A o \in DOMAIN ops :
              /\ ops[o].pc = "done" => ops'[o] = ops[o]
              /\ (Waiting(o) /\ ops'[o].pc = "done") =>
                    \/ \E m \in TransportMessages : ExecFailed(o, m)
                    \/ \E code \in ExitCodes : StreamClose(o, code)]_vars
    /\ \A o \in 1..MaxOps : Waiting(o) ~> HasSettled(o)

\* a run whose session was closed while it waited, settled by the close of its
\* channel
C22_Witness ==
    \E o \in DOMAIN ops :
        /\ ops[o].pc = "done"
        /\ ops[o].runs[1].streamed
        /\ ops[o].session \in closedSince
        /\ ~isConnected(ops[o].session)

\* what an executeCommand on sessionId does at once when it is called in the
\* state a step leads to
RunIssuedNext(sessionId) == Start(NewOp("executeCommand", sessionId, TableNames[1]), wire)'

\* C23: disconnect of a session that has no registry entry changes neither
\* the registry, nor a connection, nor a call, nor the wire.  When the session
\* has an entry, disconnect ends the connection of that entry and removes the
\* entry, and touches no other entry, connection or call.  Either way an
\* executeCommand on the session issued in the state disconnect leaves is
\* rejected at once with NoActiveConnectionError and sends nothing, and so is
\* every call made while its session has no entry.
C23_CloseRemovesTheEntry ==
    /\ [][\A s \in Sessions :
              disconnect(s) =>
                  /\ IF ~isConnected(s)
                     THEN UNCHANGED <<connections, clients, ops, wire>>
                     ELSE /\ clients[connections[s]].state = "ready"
                              => clients'[connections[s]].state = "ended"
                          /\ clients'[connections[s]].state \notin {"connecting", "ready"}
                          /\ \A c \in DOMAIN clients :
                                 c # connections[s] => clients'[c] = clients[c]
                          /\ DOMAIN clients' = DOMAIN clients
                          /\ DOMAIN connections' = DOMAIN connections \ {s}
                          /\ \A t \in DOMAIN connections' : connections'[t] = connections[t]
                          /\ UNCHANGED <<ops, wire>>
                  /\ ~isConnected(s)'
                  /\ RunIssuedNext(s).op.pc = "done"
                  /\ RunIssuedNext(s).op.result = NoActiveConnectionError
                  /\ RunIssuedNext(s).wire = wire']_vars
    /\ [][\A o \in DOMAIN ops' \ DOMAIN ops :
              ~isConnected(ops'[o].session)
                  => /\ ops'[o].pc = "done"
                     /\ ops'[o].result = NoActiveConnectionError
                     /\ wire' = wire]_vars

\* the connection of a session was ended by disconnect, the session has no
\* entry, and an executeCommand on it was rejected for want of an entry
C23_Witness ==
    \E c \in DOMAIN clients, o \in DOMAIN ops :
        /\ clients[c].state = "ended"
        /\ clients[c].session \in closedSince
        /\ ~isConnected(clients[c].session)
        /\ ops[o].session = clients[c].session
        /\ ops[o].result = NoActiveConnectionError

\* the number of tokens of a line: the places where a run of non-blanks begins
TokenCount(text) ==
    Cardinality({i \in DOMAIN text :
                    ~IsSpace(text[i]) /\ (i = 1 \/ IsSpace(text[i - 1]))})

\* the position of the nearest line beginning with `Chain` before position i
\* (0 when there is none)
NearestHeader(pieces, i) ==
    Greatest({0} \cup {j \in 1..(i - 1) : pieces[j].kind \in {"header", "badheader"}})

\* the rule line at position i stands under a header that yielded a chain name
UnderNamedChain(pieces, i) ==
    /\ NearestHeader(pieces, i) > 0
    /\ pieces[NearestHeader(pieces, i)].kind = "header"

\* the numbers of all the rules of the chains, chain after chain
RECURSIVE AllRuleNums(_)
AllRuleNums(chains) ==
    IF chains = <<>> THEN <<>>
    ELSE RuleNums(chains[1].rules) \o AllRuleNums(Tail(chains))

\* C24: a rule line is in the output of parseIptablesOutput if and only if it
\* has at least 8 tokens and the nearest line beginning with `Chain` before it
\* yielded a chain name: the rules of all the chains are those lines, each
\* once.  A rule line before the first header, or after a header with no
\* name, is in no chain, and a header with no name adds no chain.
C24_RuleKeptIffUnderNamedChain ==
    ListingParsed =>
        /\ AllRuleNums(output.value) =
               NamesAt(input.pieces,
                   SelectSeq(Indices(input.pieces, {"rule", "short"}),
                       LAMBDA i : /\ TokenCount(input.pieces[i].text) >= 8
                                  /\ UnderNamedChain(input.pieces, i)))
        /\ \A k \in DOMAIN output.value :
               \E h \in DOMAIN input.pieces :
                   /\ input.pieces[h].kind = "header"
                   /\ input.pieces[h].name = output.value[k].chain
        /\ Len(output.value) = Len(input.pieces)
               - Len(Indices(input.pieces, {"rule", "short", "other", "badheader"}))

\* a rule line of 8 columns before the first header, a header with no name, and
\* the same rule line after it: no chain and no rule come out
C24_Witness ==
    /\ ListingParsed
    /\ Len(input.pieces) = 3
    /\ input.pieces[1].kind = "rule"
    /\ input.pieces[2].kind = "badheader"
    /\ input.pieces[3] = input.pieces[1]
    /\ output.value = <<>>

\* the positions on the wire of the commands that have neither completed nor
\* failed: those no settled executeCommand of a call accounts for
InFlight == {i \in DOMAIN wire : \A r \in AllRuns : r.wireIdx # i}

\* the positions on the wire of the commands of the settled executeCommands
\* of op, in the order they settled
SentBy(op) ==
    SelectSeq([k \in DOMAIN op.runs |-> op.runs[k].wireIdx], LAMBDA i : i > 0)

\* C25: listAllRules hands its listing commands to the transport one after
\* another in the order filter, nat, raw, mangle.  A command goes on the wire
\* only in a step that leaves no earlier one in flight (the call itself, or
\* the settlement of the one before), so at most one is in flight at any time; the
\* executeCommand of table number k is the k-th to settle, the commands on
\* the wire stand in the order of their tables, and the one in flight, if
\* any, is the last on the wire and is the command of the next table.
C25_OneListingAtATime ==
    /\ [][Len(wire') > Len(wire) =>
              /\ InFlight \cap InFlight' = {}
              /\ Len(wire') = Len(wire) + 1
              /\ InFlight' = {Len(wire')}]_vars
    /\ [](\A o \in DOMAIN ops :
              ops[o].kind = "listAllRules" =>
                  /\ Cardinality(InFlight) <= 1
                  /\ Len(ops[o].runs) <= 4
                  /\ \A k \in DOMAIN ops[o].runs :
                         ops[o].runs[k].command = C11_ListTemplates[k]
                  /\ \A j, k \in DOMAIN SentBy(ops[o]) :
                         j < k => SentBy(ops[o])[j] < SentBy(ops[o])[k]
                  /\ Waiting(o) <=> InFlight # {}
                  /\ Waiting(o) =>
                         /\ InFlight = {ops[o].wireIdx}
                         /\ ops[o].wireIdx = Len(wire)
                         /\ wire[Len(wire)].command = C11_ListTemplates[Len(ops[o].runs) + 1]
                  /\ ops[o].pc = "done" => Len(ops[o].runs) = 4)

\* the command of nat has failed and the command of raw is in flight, alone
C25_Witness ==
    \E o \in DOMAIN ops :
        /\ ops[o].kind = "listAllRules"
        /\ Len(ops[o].runs) = 2
        /\ ops[o].runs[1].outcome.type = "stdout"
        /\ ops[o].runs[2].outcome.type = "CommandExecutionError"
        /\ ops[o].pc = "stream"
        /\ InFlight = {3}
        /\ wire[3].command = C11_ListTemplates[3]

\* the positions where the tokens of a line begin, and the token that begins
\* at position i
TokenStarts(text) ==
    {i \in DOMAIN text : ~IsSpace(text[i]) /\ (i = 1 \/ IsSpace(text[i - 1]))}

TokenFrom(text, i) ==
    SubSeq(text, i, Least({j \in i..Len(text) :
                              j = Len(text) \/ IsSpace(text[j + 1])}))

\* token number n of a line, counted from 0
TokenOf(text, n) ==
    TokenFrom(text,
        CHOOSE i \in TokenStarts(text) :
            Cardinality({j \in TokenStarts(text) : j < i}) = n)

\* the rules of all the chains, chain after chain
RECURSIVE AllRulesOf(_)
AllRulesOf(chains) ==
    IF chains = <<>> THEN <<>> ELSE chains[1].rules \o AllRulesOf(Tail(chains))

\* the positions of the rule lines of a listing that come out as rules
ListingRuleLines(pieces) ==
    SelectSeq(Indices(pieces, {"rule", "short"}),
              LAMBDA i : TokenCount(pieces[i].text) >= 8 /\ UnderNamedChain(pieces, i))

\* the rule is the one the line stands for
RuleIsOfLine(rule, line) ==
    /\ rule.num = TokenOf(line.text, 0)
    /\ rule.target = TokenOf(line.text, 3)
    /\ rule.prot = TokenOf(line.text, 4)
    /\ rule.opt = TokenOf(line.text, 5)
    /\ rule.source = TokenOf(line.text, 6)
    /\ rule.destination = TokenOf(line.text, 7)
    /\ rule.extra = line.value
    /\ TokenCount(line.text) = 8 =>
           /\ rule.extra = <<>>
           /\ \A f \in ExtraFieldNames : rule[f] = Null

\* C26: of a listing rule line of at least 8 tokens, the number, target,
\* protocol, options, source and destination of the rule are the tokens 0, 3,
\* 4, 5, 6 and 7, and extra is the tokens from the ninth on joined by single
\* blanks, however many blanks set them apart in the line; for a line of
\* exactly 8 tokens extra is empty and the five derived fields are null.
C26_FieldsAreTheColumns ==
    ListingParsed =>
        /\ Len(AllRulesOf(output.value)) = Len(ListingRuleLines(input.pieces))
        /\ \A k \in DOMAIN AllRulesOf(output.value) :
               RuleIsOfLine(AllRulesOf(output.value)[k],
                            input.pieces[ListingRuleLines(input.pieces)[k]])

\* a chain with a line of 10 tokens, the last two set apart by three blanks, and
\* a line of exactly 8 tokens
C26_Witness ==
    /\ ListingParsed
    /\ Len(input.pieces) = 3
    /\ input.pieces[1].kind = "header"
    /\ input.pieces[2].kind = "rule" /\ TokenCount(input.pieces[2].text) = 10
    /\ input.pieces[3].kind = "rule" /\ TokenCount(input.pieces[3].text) = 8
    /\ Len(output.value) = 1
    /\ output.value[1].rules[1].extra = <<"x", " ", "d", "p", "t", ":", "8">>
    /\ output.value[1].rules[1].destPort = Str(<<"8">>)
    /\ output.value[1].rules[2].extra = <<>>

\* the positions of the tokens that are read as options and are of the kinds
\* given, in scan order
ReadAs(pieces, kinds) ==
    SelectSeq([i \in 1..Len(pieces) |-> i],
              LAMBDA i : i \in ReadFrom(pieces, 1) /\ pieces[i].kind \in kinds)

\* the entry of an unrecognized option at position i: the token and, after one
\* blank, the token that follows it if there is one and it is no option
EntryAt(pieces, i) ==
    IF i < Len(pieces) /\ pieces[i + 1].text[1] # "-"
    THEN pieces[i].text \o <<" ">> \o pieces[i + 1].text
    ELSE pieces[i].text

\* C27: every token read in flag position that begins with `-` and is no
\* recognized flag adds exactly one entry to other, in scan order: the token
\* joined by one blank with the token after it when there is one and it does
\* not begin with `-`, and then that token is not read; the token alone
\* otherwise.  Nothing else adds an entry.
C27_OneEntryPerUnknownOption ==
    ContentParsed =>
        LET unknown == ReadAs(input.pieces, {"unknown"}) IN
        /\ \A i \in DOMAIN input.pieces :
               input.pieces[i].kind = "unknown" <=>
                   (input.pieces[i].text[1] = "-" /\ input.pieces[i].name \notin FlagFields)
        /\ Len(output.value.other) = Len(unknown)
        /\ \A k \in DOMAIN unknown :
               /\ output.value.other[k] = EntryAt(input.pieces, unknown[k])
               /\ (unknown[k] < Len(input.pieces)
                      /\ input.pieces[unknown[k] + 1].kind = "word")
                      => unknown[k] + 1 \notin ReadFrom(input.pieces, 1)

\* -m tcp -m -j: the first -m takes tcp, the second stands alone before -j
C27_Witness ==
    /\ ContentParsed
    /\ Len(input.pieces) = 4
    /\ TextsAt(input.pieces, <<1, 2, 3, 4>>) =
           <<<<"-", "m">>, <<"t", "c", "p">>, <<"-", "m">>, <<"-", "j">>>>
    /\ output.value.other = <<<<"-", "m", " ", "t", "c", "p">>, <<"-", "m">>>>

\* the positions of the value tokens of the unrecognized option read at
\* position i: the words that follow it, up to the next token that begins
\* with `-`
ValuesOf(pieces, i) ==
    {j \in (i + 1)..Len(pieces) : \A m \in (i + 1)..j : pieces[m].kind = "word"}

\* the unrecognized options that are read and are followed by several value
\* tokens
MultiValued(pieces) ==
    {i \in ReadFrom(pieces, 1) :
        pieces[i].kind = "unknown" /\ Cardinality(ValuesOf(pieces, i)) >= 2}

\* the tokens of the entries of other
EntryTokens(other) == UNION {{e[n] : n \in DOMAIN e} : e \in {SplitSpace(other[k]) : k \in DOMAIN other}}

\* C28, as stated: an unrecognized option followed by several value tokens
\* comes out as several entries of other, and each of its tokens is found in
\* some entry of other.
C28_EveryValueInSomeEntry ==
    ContentParsed =>
        \A i \in MultiValued(input.pieces) :
            /\ Len(output.value.other) >= 2
            /\ \A j \in {i} \cup ValuesOf(input.pieces, i) :
                   input.pieces[j].text \in EntryTokens(output.value.other)

\* C28, amended: an unrecognized option read in flag position and followed
\* by several value tokens comes out as one entry of other, the option
\* joined by one blank with its first value token; its further value tokens are
\* read in flag position and add no entry, so that other has exactly one
\* entry for each unrecognized option read.
C28_OneEntryWithFirstValue ==
    ContentParsed =>
        /\ Len(output.value.other) = Len(ReadAs(input.pieces, {"unknown"}))
        /\ \A k \in DOMAIN ReadAs(input.pieces, {"unknown"}) :
               LET i == ReadAs(input.pieces, {"unknown"})[k] IN
               i \in MultiValued(input.pieces) =>
                   /\ output.value.other[k] =
                          input.pieces[i].text \o <<" ">> \o input.pieces[i + 1].text
                   /\ \A j \in ValuesOf(input.pieces, i) \ {i + 1} :
                          j \in ReadFrom(input.pieces, 1)

\* -m tcp SYN: one entry, `-m tcp`, and SYN is in no entry
C28_Witness ==
    /\ ContentParsed
    /\ Len(input.pieces) = 3
    /\ TextsAt(input.pieces, <<1, 2, 3>>) = <<<<"-", "m">>, <<"t", "c", "p">>, <<"S", "Y", "N">>>>
    /\ output.value.other = <<<<"-", "m", " ", "t", "c", "p">>>>
    /\ <<"S", "Y", "N">> \notin EntryTokens(output.value.other)

\* the positions of the tokens read in flag position that do not begin with `-`
Discarded(pieces) == {i \in ReadFrom(pieces, 1) : pieces[i].text[1] # "-"}

\* the content without the tokens at the positions given
Without(pieces, positions) ==
    JoinSpace(TextsAt(pieces,
        SelectSeq([i \in 1..Len(pieces) |-> i], LAMBDA i : i \notin positions)))

\* C29: a token read in flag position that does not begin with `-` is stored
\* in no field and in no entry of other: a content parses to what it parses to
\* with these tokens taken out, as `! -s 10.0.0.1 -j DROP` parses to what
\* `-s 10.0.0.1 -j DROP` parses to; and no entry of other begins with such a
\* token.
C29_PlainTokensAreDiscarded ==
    ContentParsed =>
        /\ output.value = parseRuleContent(Without(input.pieces, Discarded(input.pieces)))
        /\ \A k \in DOMAIN output.value.other : output.value.other[k][1] = "-"
        /\ Len(output.value.other) <= Len(input.pieces) - Cardinality(Discarded(input.pieces))

\* ! -s tcp -j: the breakdown is that of -s tcp -j, the negation mark is nowhere
C29_Witness ==
    /\ ContentParsed
    /\ Len(input.pieces) = 4
    /\ TextsAt(input.pieces, <<1, 2, 3, 4>>) =
           <<<<"!">>, <<"-", "s">>, <<"t", "c", "p">>, <<"-", "j">>>>
    /\ Discarded(input.pieces) = {1}
    /\ output.value.source = Str(<<"t", "c", "p">>)
    /\ output.value.other = <<>>
    /\ output.value = parseRuleContent(<<"-", "s", " ", "t", "c", "p", " ", "-", "j">>)

\* a field is set: it is a string, and not the empty one
IsSet(field) == field.k = "string" /\ field.v # <<>>

\* the three NAT fields of a result agree with each other
NatFieldsAgree(result) ==
    /\ \A f \in {"toDestIP", "toDestPort", "toDestination"} :
           result[f] = Null \/ IsSet(result[f])
    /\ IsSet(result.toDestination) <=> IsSet(result.toDestIP)
    /\ IsSet(result.toDestPort) => IsSet(result.toDestIP)
    /\ IsSet(result.toDestIP) =>
           result.toDestination =
               IF IsSet(result.toDestPort)
               THEN Str(result.toDestIP.v \o <<":">> \o result.toDestPort.v)
               ELSE result.toDestIP

\* C30: in every result of parseExtraFields, alone or as the fields of a rule
\* of a listing, toDestination is set if and only if toDestIP is set,
\* toDestPort is set only if toDestIP is set, and toDestination is
\* `ip:port` when the port is set and the ip alone otherwise.
C30_NatFieldsAgree ==
    /\ output.parser = "parseExtraFields" => NatFieldsAgree(output.value)
    /\ output.parser = "parseIptablesOutput" =>
           \A k \in DOMAIN AllRulesOf(output.value) :
               NatFieldsAgree(AllRulesOf(output.value)[k])

\* a destination with a port before one without: the first gives the fields
C30_Witness ==
    /\ ExtraParsed
    /\ Len(input.pieces) = 2
    /\ input.pieces[1].kind = "to" /\ input.pieces[1].value # <<>>
    /\ input.pieces[2].kind = "to" /\ input.pieces[2].value = <<>>
    /\ IsSet(output.value.toDestPort)
    /\ output.value.toDestination =
           Str(input.pieces[1].name \o <<":">> \o input.pieces[1].value)

====
